---- MODULE Spec2Model ----
(***************************************************************************)
(* Exchange connectivity layer of the arbitrage bot: the Poloniex protocol *)
(* client (rate limiter, error classification), the exchange adapter, the  *)
(* streaming session (WebSocketManager) and the registry (Manager).        *)
(***************************************************************************)
EXTENDS Integers, Sequences, FiniteSets, TLC

\* ------------------------------------------------------------------ bounds
NumCallers == 2          \* concurrent callers of the client / adapter / registry
RateLimit == 2           \* ClientConfig.rate_limit of the modelled client
MaxTime == 7             \* seconds the clock may advance
MaxSessions == 2         \* streaming sessions one adapter creates
MaxOpens == 2            \* transports one session opens (the first and its reconnects)
MaxMsgs == 1             \* book messages one session reads
NumAdapters == 2         \* adapter objects of one name that callers may register
NumTasks == 3            \* tasks that share one Manager
MaxLevels == 2           \* price levels on one side of a raw order book
MaxPairLen == 4          \* characters of a pair string
MaxParams == 2           \* parameters a caller passes to one request

\* ------------------------------------------------------------------ program constants
WindowSecs == 5          \* client.rs:253, Duration::from_secs(5)
DEFAULT_DEPTH == 10      \* websocket.rs:32
MaxDepth == 255          \* websocket.rs:44, depth: u8

Callers == 1..NumCallers
Tasks == 1..NumTasks
Sessions == 1..MaxSessions

\* provider error codes the adapter knows (exchange.rs:422-424) and one it does not
InsufficientFundsCode == 21603
OrderNotFoundCode == 21606
PairNotSupportedCode == 21601
OtherProviderCode == 21604
BadRequestStatus == 400
NoCode == 0

Codes == {InsufficientFundsCode, OrderNotFoundCode, PairNotSupportedCode, OtherProviderCode}

\* what the exchange (or the network) answers to one HTTP request
Responses ==
    {[k |-> "transport", code |-> NoCode, parse |-> FALSE],   \* request.send() fails
     [k |-> "bodyerr", code |-> NoCode, parse |-> FALSE]}     \* response.bytes() fails
    \cup {[k |-> "ok", code |-> NoCode, parse |-> p] : p \in BOOLEAN}
    \cup {[k |-> "http", code |-> cd, parse |-> FALSE] : cd \in Codes \cup {NoCode}}

RestOps == {"get_orderbook", "place_order", "cancel_order", "get_order", "get_balances"}

\* pairs are strings, modelled as sequences of characters
BTC_USDT == <<"B", "/", "U">>
ETH_USDT == <<"E", "/", "U">>
PairLists == {<<BTC_USDT>>, <<BTC_USDT, ETH_USDT>>}

\* names of the adapters the registry may hold
Names == {"poloniex", "mock"}
RegistryOps == {"register", "unregister", "get", "list", "connect_all", "disconnect_all",
                "status"}

\* keys of Config.exchanges, and what an entry may be (ExchangeConfig.enabled, or no entry)
ConfigNames == {"poloniex", "Poloniex", "gate", "binance"}
EntryStates == {"absent", "enabled", "disabled"}

\* tungstenite::Error variants the read loop may see, and the other stream items
WsErrors == {"ConnectionClosed", "AlreadyClosed", "Io", "Tls", "Http", "Protocol", "Capacity", "Utf8"}
Events == {"book", "control", "close_frame", "other_frame", "end",
           "ConnectionClosed", "Protocol"}

VARIABLES
    now,               \* the clock (Instant::now), in seconds
    request_count,     \* Client.request_count
    window_start,      \* Client.rate_limit_state.window_start
    rl_lock,           \* holder of Client.rate_limit_state's mutex, 0 when free
    issued,            \* history: check_rate_limit calls since the last window reset (saturating)
    connected,         \* PoloniexExchange.connected
    websocket_manager, \* PoloniexExchange.websocket_manager: 0 (None) or the session stored
    wm_lock,           \* holder of the websocket_manager mutex, 0 when free
    after_disconnect,  \* history: the latest adapter event is a disconnect() that returned
    call,              \* per caller: the operation in progress and its outcome
    nsess,             \* streaming sessions created so far
    pairs,             \* WebSocketConfig.pairs of each session
    closed,            \* WebSocketManager.closed
    sink,              \* WebSocketManager.sink: 0 (None) or the transport whose sink it holds
    opened,            \* transports the session has opened so far
    live,              \* transports of the session opened and not yet closed
    task,              \* position of the task running subscribe() for the session
    why,               \* history: the stream item that made the read loop leave its wait
    tries,             \* history: connects attempted by the reconnect in progress
    ping,              \* position of the session's ping loop
    chan,              \* orderbooks sent on the session's channel, in order
    rx,                \* the channel's receiver is still held by the consumer
    nread,             \* history: book messages read while the receiver was alive
    sent,              \* history: subscription messages sent, with their transport and cause
    exchanges,         \* Manager.exchanges: the names registered
    is_connected,      \* connected flag of the adapter registered under each name
    rw_queue,          \* callers waiting for Manager.exchanges' RwLock, first come first
    rw_holders,        \* callers holding the RwLock
    rcall,             \* per caller: the registry operation in progress and its outcome
    handle,            \* Manager.exchanges: the adapter stored under each name, 0 when none
    latest,            \* history: the adapter of the latest register(name) not unregistered since
    config,            \* Config.exchanges given to Manager::from_config: name -> entry
    fc,                \* Manager::from_config in progress and its outcome
    book,              \* an order book being decoded: the raw input and the Orderbook produced
    conv,              \* a pair string being converted to a symbol and back
    req,               \* the parameters of one Client::request and the payload built from them
    sk,                \* one WebSocketManager's sink mutex and the tasks that use it, step by step
    bot                \* one Bot: running, executing_pairs, and its callers step by step

clientVars == <<now, request_count, window_start, rl_lock, issued>>
adapterVars == <<connected, websocket_manager, wm_lock, after_disconnect>>
sessVars == <<nsess, pairs, closed, sink, opened, live, task, why, tries, ping, chan, rx, nread, sent>>
pureVars == <<book, conv, req>>
auxVars == <<config, fc, pureVars, sk, bot>>
regVarsBase == <<exchanges, is_connected, rw_queue, rw_holders, rcall, handle, latest>>
regVars == <<regVarsBase, auxVars>>
vars == <<now, request_count, window_start, rl_lock, issued, connected, websocket_manager,
          wm_lock, after_disconnect, call, nsess, pairs, closed, sink, opened, live, task,
          why, tries, ping, chan, rx, nread, sent,
          exchanges, is_connected, rw_queue, rw_holders, rcall, handle, latest, config, fc, book,
          conv, req, sk, bot>>

NoErr == [kind |-> "none", code |-> NoCode, current |-> 0, limit |-> 0]
NoResp == [k |-> "none", code |-> NoCode, parse |-> FALSE]
Idle == [op |-> "none", pc |-> "idle", cerr |-> NoErr, res |-> "none", ord |-> 0,
         saw |-> FALSE, rep |-> FALSE, sess |-> 0, note |-> "none"]
FcIdle == [pc |-> "idle", todo |-> {}, res |-> "none", at |-> "none", listed |-> FALSE,
           names |-> {}]
RIdle == [op |-> "none", pc |-> "idle", name |-> "none", todo |-> {}, log |-> <<>>,
          res |-> "none", names |-> {}, snap |-> {}, adapter |-> 0, got |-> 0]

\* the tasks that use a session's sink: the task running subscribe(), the ping loop, and
\* the caller of close()
SinkUsers == {"read", "ping", "close"}

\* WebSocketManager::new: no sink stored, not closed, the task spawned, no ping loop yet
NewSink == [guard |-> "none", writing |-> {}, stored |-> FALSE, closed |-> FALSE, opens |-> 0,
            site |-> [t \in SinkUsers |-> CASE t = "read" -> "connect"
                                             [] t = "ping" -> "unspawned"
                                             [] t = "close" -> "idle"],
            at |-> [t \in SinkUsers |-> "run"]]

\* Bot::from_config_path: not running, no pair locked, no call in progress; held counts,
\* for each pair, the try_lock_pair calls that returned true since the last unlock_pair
NewBot == [running |-> FALSE, executing_pairs |-> {}, guard |-> 0,
           held |-> [p \in {BTC_USDT, ETH_USDT} |-> 0],
           pc |-> [c \in Callers |-> "idle"],
           pair |-> [c \in Callers |-> <<>>],
           ret |-> [c \in Callers |-> "none"]]

InitBase ==
    /\ sk = NewSink
    /\ bot = NewBot
    /\ now = 0
    /\ request_count = 0
    /\ window_start = 0
    /\ rl_lock = 0
    /\ issued = 0
    /\ connected = FALSE
    /\ websocket_manager = 0
    /\ wm_lock = 0
    /\ after_disconnect = FALSE
    /\ call = [c \in Callers |-> Idle]
    /\ nsess = 0
    /\ pairs = [s \in Sessions |-> <<>>]
    /\ closed = [s \in Sessions |-> FALSE]
    /\ sink = [s \in Sessions |-> 0]
    /\ opened = [s \in Sessions |-> 0]
    /\ live = [s \in Sessions |-> {}]
    /\ task = [s \in Sessions |-> "none"]
    /\ why = [s \in Sessions |-> "none"]
    /\ tries = [s \in Sessions |-> 0]
    /\ ping = [s \in Sessions |-> "none"]
    /\ chan = [s \in Sessions |-> <<>>]
    /\ rx = [s \in Sessions |-> FALSE]
    /\ nread = [s \in Sessions |-> 0]
    /\ sent = [s \in Sessions |-> <<>>]
    /\ exchanges = {}
    /\ is_connected = [n \in Names |-> FALSE]
    /\ rw_queue = <<>>
    /\ rw_holders = {}
    /\ rcall = [c \in Tasks |-> RIdle]
    /\ handle = [n \in Names |-> 0]
    /\ latest = [n \in Names |-> 0]

\* no pair being converted
NoConv == [pc |-> "none", pair |-> <<>>, symbol |-> <<>>, back |-> <<>>,
           depth |-> DEFAULT_DEPTH, sent_depth |-> 0]

\* no request payload being built
NoReq == [pc |-> "none", method |-> "none", signed |-> FALSE, params |-> <<>>,
          order |-> <<>>, payload |-> <<>>,
          sign_payload |-> [method |-> "none", form |-> "none", payload |-> <<>>]]

\* no order book being decoded
NoBook == [src |-> "none", pc |-> "none", raw_bids |-> <<>>, raw_asks |-> <<>>,
           bids |-> <<>>, asks |-> <<>>]

Init ==
    /\ InitBase
    /\ config = [n \in ConfigNames |-> "absent"]
    /\ fc = FcIdle
    /\ book = NoBook
    /\ conv = NoConv
    /\ req = NoReq

\* ------------------------------------------------------------ pure helpers

\* parse_error_response: the body's code, or the HTTP status when it has none
parse_error_response(status, code) ==
    [kind |-> "Api", code |-> IF code = NoCode THEN status ELSE code, current |-> 0, limit |-> 0]

\* map_client_error (used by place_order only)
map_client_error(err) ==
    IF err.kind = "Api"
    THEN CASE err.code = InsufficientFundsCode -> "InsufficientFunds"
           [] err.code = OrderNotFoundCode -> "OrderNotFound"
           [] err.code = PairNotSupportedCode -> "PairNotSupported"
           [] OTHER -> "Api"
    ELSE "Api"

\* the map_err closure each adapter operation applies to a ClientError
AdapterError(op, err) ==
    CASE op = "connect" -> "Connection"
      [] op = "place_order" -> map_client_error(err)
      [] OTHER -> "Api"

\* whether the operation deserializes the response body
ParsesBody(op) == op \in {"connect", "get_orderbook", "place_order", "get_order", "get_balances"}

\* the client-level outcome of a response that arrived
ClientOutcome(op, r) ==
    CASE r.k = "bodyerr" -> [NoErr EXCEPT !.kind = "Request"]
      [] r.k = "http" -> parse_error_response(BadRequestStatus, r.code)
      [] r.k = "ok" /\ op = "connect" /\ ~r.parse -> [NoErr EXCEPT !.kind = "Json"]
      [] OTHER -> [NoErr EXCEPT !.kind = "ok"]

\* the adapter-level result of a finished client call
AdapterResult(op, err, r) ==
    CASE op = "request" -> "none"
      [] err.kind # "ok" -> AdapterError(op, err)
      [] ParsesBody(op) /\ ~r.parse -> "Api"
      [] OTHER -> "Ok"

\* ------------------------------------------------------------ Client::request

\* a caller invokes Client::request directly
BeginRequest(c) ==
    /\ call[c].pc = "idle"
    /\ call' = [call EXCEPT ![c] = [Idle EXCEPT !.op = "request", !.pc = "rl"]]
    /\ UNCHANGED <<regVars, clientVars, adapterVars, sessVars>>

\* check_rate_limit, first half: take the mutex, reset an expired window
CheckRateLimitReset(c) ==
    /\ call[c].pc = "rl"
    /\ rl_lock = 0
    /\ rl_lock' = c
    /\ IF now - window_start > WindowSecs
       THEN /\ request_count' = 0
            /\ window_start' = now
            /\ issued' = 0
       ELSE UNCHANGED <<request_count, window_start, issued>>
    /\ call' = [call EXCEPT ![c].pc = "rl_load"]
    /\ UNCHANGED <<regVars, now, adapterVars, sessVars>>

Admits(current) == current < RateLimit

\* check_rate_limit, second half: load the counter, compare, release the mutex
CheckRateLimitLoad(c) ==
    /\ call[c].pc = "rl_load"
    /\ rl_lock = c
    /\ rl_lock' = 0
    /\ issued' = IF issued <= RateLimit THEN issued + 1 ELSE issued
    /\ IF Admits(request_count)
       THEN call' = [call EXCEPT ![c].pc = "send", ![c].ord = issued']
       ELSE LET e == [kind |-> "RateLimitExceeded", code |-> NoCode,
                      current |-> request_count, limit |-> RateLimit]
            IN call' = [call EXCEPT ![c].pc = "done",
                                    ![c].ord = issued',
                                    ![c].cerr = e,
                                    ![c].res = AdapterResult(call[c].op, e, NoResp)]
    /\ UNCHANGED <<regVars, now, request_count, window_start, adapterVars, sessVars>>

\* increment_request_count
increment_request_count(n) == n + 1

\* request.send().await and the handling of its result
SendComplete(c) ==
    /\ call[c].pc = "send"
    /\ \E r \in Responses :
        IF r.k = "transport"
        THEN /\ LET e == [NoErr EXCEPT !.kind = "Request"]
                IN call' = [call EXCEPT ![c].pc = "done", ![c].cerr = e,
                                        ![c].res = AdapterResult(call[c].op, e, r)]
             /\ UNCHANGED request_count
        ELSE /\ request_count' = increment_request_count(request_count)
             /\ LET e == ClientOutcome(call[c].op, r)
                IN call' = [call EXCEPT
                              ![c].pc = IF call[c].op = "connect" /\ e.kind = "ok"
                                        THEN "c_store" ELSE "done",
                              ![c].cerr = e,
                              ![c].res = IF call[c].op = "connect" /\ e.kind = "ok"
                                         THEN "none" ELSE AdapterResult(call[c].op, e, r)]
    /\ UNCHANGED <<regVars, now, window_start, rl_lock, issued, adapterVars, sessVars>>

\* the caller takes the result
Return(c) ==
    /\ call[c].pc = "done"
    /\ call' = [call EXCEPT ![c] = Idle]
    /\ UNCHANGED <<regVars, clientVars, adapterVars, sessVars>>

\* time passes
Tick ==
    /\ now < MaxTime
    /\ now' = now + 1
    /\ UNCHANGED <<regVars, request_count, window_start, rl_lock, issued, adapterVars, call, sessVars>>

ClientStep(c) ==
    \/ CheckRateLimitReset(c)
    \/ CheckRateLimitLoad(c)
    \/ SendComplete(c)
    \/ Return(c)

NextClient ==
    \/ \E c \in Callers : BeginRequest(c)
    \/ \E c \in Callers : ClientStep(c)
    \/ Tick

SpecClient == Init /\ [][NextClient]_vars

\* callers use the client one call at a time
BeginRequestSeq(c) ==
    /\ \A d \in Callers : call[d].pc = "idle"
    /\ BeginRequest(c)

NextClientSeq ==
    \/ \E c \in Callers : BeginRequestSeq(c)
    \/ \E c \in Callers : ClientStep(c)
    \/ Tick

SpecClientSeq == Init /\ [][NextClientSeq]_vars

\* ------------------------------------------------------------ adapter: REST operations

\* connect(): get_server_time() goes through Client::request
BeginConnect(c) ==
    /\ call[c].pc = "idle"
    /\ call' = [call EXCEPT ![c] = [Idle EXCEPT !.op = "connect", !.pc = "rl",
                                                !.rep = after_disconnect]]
    /\ after_disconnect' = FALSE
    /\ UNCHANGED <<regVars, clientVars, connected, websocket_manager, wm_lock, sessVars>>

\* a connect() that refuses a server whose clock differs by more than MAX_CLOCK_DRIFT
ConnectStore_rejects_drift(c) ==
    /\ call[c].pc = "c_store"
    /\ \E exceeds \in BOOLEAN :
          /\ connected' = IF exceeds THEN connected ELSE TRUE
          /\ call' = [call EXCEPT ![c].pc = "done",
                                  ![c].res = IF exceeds THEN "Connection" ELSE "Ok",
                                  ![c].note = IF exceeds THEN "clock_drift" ELSE "none"]
    /\ after_disconnect' = FALSE
    /\ UNCHANGED <<regVars, clientVars, websocket_manager, wm_lock, sessVars>>

\* connect(): once the server time has arrived, the drift is measured (one above
\* MAX_CLOCK_DRIFT is only logged), then self.connected.store(true)
ConnectStore(c) ==
    /\ call[c].pc = "c_store"
    /\ \E exceeds \in BOOLEAN :
          call' = [call EXCEPT ![c].pc = "done", ![c].res = "Ok",
                               ![c].note = IF exceeds THEN "clock_drift" ELSE "none"]
    /\ connected' = TRUE
    /\ after_disconnect' = FALSE
    /\ UNCHANGED <<regVars, clientVars, websocket_manager, wm_lock, sessVars>>

\* an is_connected() guard that lets every call through
NotConnectedError_never(isConnected) == "none"

\* the is_connected() guard the REST operations and subscribe_orderbook start with
NotConnectedError(isConnected) == IF isConnected THEN "none" ELSE "Connection"

\* a REST operation that goes to the client without looking at the connected flag
BeginRest_unguarded(c, op) ==
    /\ call[c].pc = "idle"
    /\ call' = [call EXCEPT ![c] = [Idle EXCEPT !.op = op, !.saw = connected,
                                                !.rep = after_disconnect, !.pc = "rl"]]
    /\ after_disconnect' = FALSE
    /\ UNCHANGED <<regVars, clientVars, connected, websocket_manager, wm_lock, sessVars>>

\* get_orderbook, place_order, cancel_order, get_order, get_balances: entry
BeginRest(c, op) ==
    /\ call[c].pc = "idle"
    /\ LET e == NotConnectedError(connected)
       IN call' = [call EXCEPT ![c] = [Idle EXCEPT !.op = op, !.saw = connected,
                                                   !.rep = after_disconnect,
                                                   !.pc = IF e = "none" THEN "rl" ELSE "done",
                                                   !.res = e]]
    /\ after_disconnect' = FALSE
    /\ UNCHANGED <<regVars, clientVars, connected, websocket_manager, wm_lock, sessVars>>

\* disconnect(): self.connected.store(false)
BeginDisconnect(c) ==
    /\ call[c].pc = "idle"
    /\ connected' = FALSE
    /\ call' = [call EXCEPT ![c] = [Idle EXCEPT !.op = "disconnect", !.pc = "d_lock",
                                                !.rep = after_disconnect]]
    /\ after_disconnect' = FALSE
    /\ UNCHANGED <<regVars, clientVars, websocket_manager, wm_lock, sessVars>>

\* a close() that never returns early
close_marks_always(isClosed) == TRUE

\* WebSocketManager::close: it goes on to mark_closed() unless is_closed()
close_marks(isClosed) == ~isClosed

\* disconnect(): lock websocket_manager; with a manager stored, enter its close():
\* is_closed() returns at once, else mark_closed()
DisconnectLock(c) ==
    /\ call[c].pc = "d_lock"
    /\ wm_lock = 0
    /\ IF websocket_manager # 0 /\ close_marks(closed[websocket_manager])
       THEN /\ closed' = [closed EXCEPT ![websocket_manager] = TRUE]
            /\ wm_lock' = c
            /\ call' = [call EXCEPT ![c].pc = "d_take"]
            /\ UNCHANGED after_disconnect
       ELSE /\ call' = [call EXCEPT ![c].pc = "done", ![c].res = "Ok"]
            /\ after_disconnect' = TRUE
            /\ UNCHANGED <<closed, wm_lock>>
    /\ UNCHANGED <<regVars, clientVars, connected, websocket_manager, nsess, pairs, sink, opened, live,
                   task, why, tries, ping, chan, rx, nread, sent>>

\* WebSocketManager::close, second half: take the sink and close it (an error is only
\* logged); then disconnect() returns Ok
DisconnectTake(c) ==
    /\ call[c].pc = "d_take"
    /\ wm_lock = c
    /\ LET s == websocket_manager
       IN /\ sink' = [sink EXCEPT ![s] = 0]
          /\ live' = [live EXCEPT ![s] = @ \ {sink[s]}]
          /\ \E closeOk \in BOOLEAN :
                call' = [call EXCEPT ![c].pc = "done", ![c].res = "Ok",
                                     ![c].note = IF sink[s] # 0 /\ ~closeOk
                                                 THEN "close_failed" ELSE "none"]
    /\ wm_lock' = 0
    /\ after_disconnect' = TRUE
    /\ UNCHANGED <<regVars, clientVars, connected, websocket_manager, nsess, pairs, closed, opened,
                   task, why, tries, ping, chan, rx, nread, sent>>

NextRest ==
    \/ \E c \in Callers : BeginConnect(c)
    \/ \E c \in Callers : ConnectStore(c)
    \/ \E c \in Callers, op \in RestOps : BeginRest(c, op)
    \/ \E c \in Callers : BeginDisconnect(c)
    \/ \E c \in Callers : DisconnectLock(c)
    \/ \E c \in Callers : ClientStep(c)

SpecRest == Init /\ [][NextRest]_vars

\* connect() called concurrently on an adapter with no session, while one caller may
\* also call disconnect()
NextConnect ==
    \/ \E c \in Callers : BeginConnect(c)
    \/ \E c \in Callers : ConnectStore(c)
    \/ \E c \in Callers : ClientStep(c)
    \/ LET owner == CHOOSE c \in Callers : \A d \in Callers : c <= d
       IN BeginDisconnect(owner) \/ DisconnectLock(owner)

SpecConnect == Init /\ [][NextConnect]_vars

\* ------------------------------------------------------------ adapter: streaming

\* subscribe_orderbook(): the is_connected() guard; at most cap sessions are created
BeginSubscribeOrderbook(c, cap) ==
    /\ call[c].pc = "idle"
    /\ nsess + Cardinality({d \in Callers : call[d].pc = "s_store"}) < cap
    /\ LET e == NotConnectedError(connected)
       IN call' = [call EXCEPT ![c] = [Idle EXCEPT !.op = "subscribe_orderbook",
                                                   !.saw = connected,
                                                   !.rep = after_disconnect,
                                                   !.pc = IF e = "none" THEN "s_store" ELSE "done",
                                                   !.res = e]]
    /\ after_disconnect' = FALSE
    /\ UNCHANGED <<regVars, clientVars, connected, websocket_manager, wm_lock, sessVars>>

\* subscribe_orderbook(): WebSocketManager::new, store it in websocket_manager, spawn the
\* task that runs subscribe(), return the receiver
SubscribeStore(c, ps) ==
    /\ call[c].pc = "s_store"
    /\ wm_lock = 0
    /\ LET s == nsess + 1
       IN /\ nsess' = s
          /\ pairs' = [pairs EXCEPT ![s] = ps]
          /\ rx' = [rx EXCEPT ![s] = TRUE]
          /\ task' = [task EXCEPT ![s] = "spawned"]
          /\ websocket_manager' = s
          /\ call' = [call EXCEPT ![c].pc = "done", ![c].res = "Ok", ![c].sess = s]
    /\ after_disconnect' = FALSE
    /\ UNCHANGED <<regVars, clientVars, connected, wm_lock, closed, sink, opened, live, why, tries,
                   ping, chan, nread, sent>>

\* pair_to_symbol: pair.replace('/', "_")
pair_to_symbol(pair) == [i \in 1..Len(pair) |-> IF pair[i] = "/" THEN "_" ELSE pair[i]]

\* a symbol_to_pair that returns the symbol as it is
symbol_to_pair_same(symbol) == symbol

\* symbol_to_pair: symbol.replace('_', "/")
symbol_to_pair(symbol) == [i \in 1..Len(symbol) |-> IF symbol[i] = "_" THEN "/" ELSE symbol[i]]

\* a normalize_depth that picks the nearest supported value
normalize_depth_nearest(depth) == IF depth <= 7 THEN 5 ELSE IF depth <= 15 THEN 10 ELSE 20

\* normalize_depth: 5, 10 or 20
normalize_depth(depth) == IF depth <= 5 THEN 5 ELSE IF depth <= 10 THEN 10 ELSE 20

\* send_subscribe_message: the payload, built from the session's configuration
SubscribeMessage(s) ==
    [event |-> "subscribe", channel |-> "book",
     symbols |-> [i \in 1..Len(pairs[s]) |-> pair_to_symbol(pairs[s][i])],
     depth |-> normalize_depth(DEFAULT_DEPTH)]

\* a should_reconnect that leaves out the closed-connection error
should_reconnect_without_closed(e) == e \in {"AlreadyClosed", "Io", "Tls", "Http"}

\* a should_reconnect that takes every error as recoverable
should_reconnect_any(e) == TRUE

\* should_reconnect
should_reconnect(e) == e \in {"ConnectionClosed", "AlreadyClosed", "Io", "Tls", "Http"}

\* the receiver sees end-of-stream once every owner of the manager (the adapter's slot,
\* the spawned task) has dropped it, and with it orderbooks_tx
ChannelClosed(s) == s <= nsess /\ websocket_manager # s /\ task[s] = "done"

\* WebSocketManager::connect: on success the new transport's sink is stored
Connect(s, ok) ==
    IF ok
    THEN /\ opened' = [opened EXCEPT ![s] = @ + 1]
         /\ sink' = [sink EXCEPT ![s] = opened[s] + 1]
         /\ live' = [live EXCEPT ![s] = @ \cup {opened[s] + 1}]
    ELSE UNCHANGED <<opened, sink, live>>

\* send_subscribe_message can succeed only while a sink is stored
CanSend(s) == sink[s] # 0

\* subscribe(), step 1: connect; an error ends the task
SubConnect(s) ==
    /\ task[s] = "spawned"
    /\ \E ok \in BOOLEAN :
        /\ ok => opened[s] < MaxOpens
        /\ Connect(s, ok)
        /\ task' = [task EXCEPT ![s] = IF ok THEN "sub" ELSE "done"]
    /\ UNCHANGED <<regVars, clientVars, adapterVars, call, nsess, pairs, closed, why, tries, ping,
                   chan, rx, nread, sent>>

\* subscribe(), steps 2 and 3: send the subscription, spawn the ping loop
SubSubscribe(s) ==
    /\ task[s] = "sub"
    /\ \E ok \in BOOLEAN :
        /\ ok => CanSend(s)
        /\ IF ok
           THEN /\ sent' = [sent EXCEPT ![s] = Append(@, [t |-> sink[s],
                                                          msg |-> SubscribeMessage(s),
                                                          cause |-> "none"])]
                /\ ping' = [ping EXCEPT ![s] = "run"]
                /\ task' = [task EXCEPT ![s] = "loop"]
           ELSE /\ task' = [task EXCEPT ![s] = "done"]
                /\ UNCHANGED <<sent, ping>>
    /\ UNCHANGED <<regVars, clientVars, adapterVars, call, nsess, pairs, closed, sink, opened, live,
                   why, tries, chan, rx, nread>>

\* read_loop: the is_closed() check at the top of each iteration
LoopCheck(s) ==
    /\ task[s] = "loop"
    /\ task' = [task EXCEPT ![s] = IF closed[s] THEN "cleanup" ELSE "next"]
    /\ UNCHANGED <<regVars, clientVars, adapterVars, call, nsess, pairs, closed, sink, opened, live,
                   why, tries, ping, chan, rx, nread, sent>>

\* parse_message on the n-th book message, read from transport t
DecodeBook(s, n, t) ==
    [exchange |-> "poloniex",
     pair |-> symbol_to_pair(pair_to_symbol(pairs[s][1])),
     n |-> n, t |-> t]

\* a channel that hands out the newest order book first
Deliver_newest_first(q, ob) == <<ob>> \o q

\* orderbooks_tx.send
Deliver(q, ob) == Append(q, ob)

\* read_loop: one item of stream.next() and the match on it; the session reads at most cap
\* book messages
ReadItem(s, ev, cap) ==
    /\ task[s] = "next"
    /\ ev = "book" => nread[s] < cap
    /\ CASE ev = "book" /\ rx[s] ->
              /\ chan' = [chan EXCEPT ![s] = Deliver(@, DecodeBook(s, nread[s] + 1, opened[s]))]
              /\ nread' = [nread EXCEPT ![s] = @ + 1]
              /\ task' = [task EXCEPT ![s] = "loop"]
              /\ UNCHANGED why
         [] ev = "book" /\ ~rx[s] ->
              /\ task' = [task EXCEPT ![s] = "cleanup"]
              /\ UNCHANGED <<chan, nread, why>>
         [] ev \in {"control", "other_frame"} ->
              /\ task' = [task EXCEPT ![s] = "loop"]
              /\ UNCHANGED <<chan, nread, why>>
         [] ev = "close_frame" ->
              /\ task' = [task EXCEPT ![s] = "rc_take"]
              /\ why' = [why EXCEPT ![s] = ev]
              /\ UNCHANGED <<chan, nread>>
         [] ev = "end" ->
              /\ task' = [task EXCEPT ![s] = "cleanup"]
              /\ why' = [why EXCEPT ![s] = ev]
              /\ UNCHANGED <<chan, nread>>
         [] OTHER ->
              /\ task' = [task EXCEPT ![s] = IF should_reconnect(ev) THEN "rc_take"
                                                                     ELSE "cleanup"]
              /\ why' = [why EXCEPT ![s] = ev]
              /\ UNCHANGED <<chan, nread>>
    /\ UNCHANGED <<regVars, clientVars, adapterVars, call, nsess, pairs, closed, sink, opened, live,
                   tries, ping, rx, sent>>

\* read_loop: one item of stream.next(), of at most MaxMsgs book messages
ReadEvent(s, ev) == ReadItem(s, ev, MaxMsgs)

\* a reconnect() that leaves the stored sink where it is
RcTake_leaves_sink(s) ==
    /\ task[s] = "rc_take"
    /\ task' = [task EXCEPT ![s] = "rc_check"]
    /\ UNCHANGED <<regVars, clientVars, adapterVars, call, nsess, pairs, closed, sink, live, opened,
                   why, tries, ping, chan, rx, nread, sent>>

\* reconnect(): take the stored sink and close it
RcTake(s) ==
    /\ task[s] = "rc_take"
    /\ sink' = [sink EXCEPT ![s] = 0]
    /\ live' = [live EXCEPT ![s] = @ \ {sink[s]}]
    /\ task' = [task EXCEPT ![s] = "rc_check"]
    /\ UNCHANGED <<regVars, clientVars, adapterVars, call, nsess, pairs, closed, opened, why, tries,
                   ping, chan, rx, nread, sent>>

\* reconnect(): first is_closed() check, then the sleep starts
RcCheck(s) ==
    /\ task[s] = "rc_check"
    /\ task' = [task EXCEPT ![s] = IF closed[s] THEN "cleanup" ELSE "rc_sleep"]
    /\ UNCHANGED <<regVars, clientVars, adapterVars, call, nsess, pairs, closed, sink, opened, live,
                   why, tries, ping, chan, rx, nread, sent>>

\* reconnect(): is_closed() check after the sleep
RcWake(s) ==
    /\ task[s] = "rc_sleep"
    /\ task' = [task EXCEPT ![s] = IF closed[s] THEN "cleanup" ELSE "rc_connect"]
    /\ UNCHANGED <<regVars, clientVars, adapterVars, call, nsess, pairs, closed, sink, opened, live,
                   why, tries, ping, chan, rx, nread, sent>>

\* a reconnect() that tries self.connect() again after an error
RcConnect_retries(s) ==
    /\ task[s] = "rc_connect"
    /\ tries' = [tries EXCEPT ![s] = @ + 1]
    /\ \E ok \in BOOLEAN :
        /\ ok => opened[s] < MaxOpens
        /\ ~ok => tries[s] < MaxOpens
        /\ Connect(s, ok)
        /\ task' = [task EXCEPT ![s] = IF ok THEN "rc_sub" ELSE "rc_connect"]
    /\ UNCHANGED <<regVars, clientVars, adapterVars, call, nsess, pairs, closed, why, ping, chan, rx,
                   nread, sent>>

\* reconnect(): self.connect(); an error makes try_reconnect return None
RcConnect(s) ==
    /\ task[s] = "rc_connect"
    /\ tries' = [tries EXCEPT ![s] = @ + 1]
    /\ \E ok \in BOOLEAN :
        /\ ok => opened[s] < MaxOpens
        /\ Connect(s, ok)
        /\ task' = [task EXCEPT ![s] = IF ok THEN "rc_sub" ELSE "cleanup"]
    /\ UNCHANGED <<regVars, clientVars, adapterVars, call, nsess, pairs, closed, why, ping, chan, rx,
                   nread, sent>>

\* reconnect(): self.send_subscribe_message(); on success the loop reads the new stream
RcSubscribe(s) ==
    /\ task[s] = "rc_sub"
    /\ \E ok \in BOOLEAN :
        /\ ok => CanSend(s)
        /\ IF ok
           THEN /\ sent' = [sent EXCEPT ![s] = Append(@, [t |-> sink[s],
                                                          msg |-> SubscribeMessage(s),
                                                          cause |-> why[s]])]
                /\ task' = [task EXCEPT ![s] = "loop"]
                /\ why' = [why EXCEPT ![s] = "none"]
                /\ tries' = [tries EXCEPT ![s] = 0]
           ELSE /\ task' = [task EXCEPT ![s] = "cleanup"]
                /\ UNCHANGED <<sent, why, tries>>
    /\ UNCHANGED <<regVars, clientVars, adapterVars, call, nsess, pairs, closed, sink, opened, live,
                   ping, chan, rx, nread>>

\* a cleanup that clears the closed flag again
Cleanup_resets(s) ==
    /\ task[s] = "cleanup"
    /\ sink' = [sink EXCEPT ![s] = 0]
    /\ live' = [live EXCEPT ![s] = @ \ {sink[s]}]
    /\ task' = [task EXCEPT ![s] = "done"]
    /\ why' = [why EXCEPT ![s] = "none"]
    /\ tries' = [tries EXCEPT ![s] = 0]
    /\ closed' = [closed EXCEPT ![s] = FALSE]
    /\ UNCHANGED <<regVars, clientVars, adapterVars, call, nsess, pairs, opened, ping, chan,
                   rx, nread, sent>>

\* read_loop: cleanup after the loop; subscribe() returns and the task drops its manager
Cleanup(s) ==
    /\ task[s] = "cleanup"
    /\ sink' = [sink EXCEPT ![s] = 0]
    /\ live' = [live EXCEPT ![s] = @ \ {sink[s]}]
    /\ task' = [task EXCEPT ![s] = "done"]
    /\ why' = [why EXCEPT ![s] = "none"]
    /\ tries' = [tries EXCEPT ![s] = 0]
    /\ UNCHANGED <<regVars, clientVars, adapterVars, call, nsess, pairs, closed, opened, ping, chan,
                   rx, nread, sent>>

\* a ping loop that starts a reconnect of its own when it finds the sink gone
PingTick_reconnects(s) ==
    /\ ping[s] = "run"
    /\ closed[s] \/ sink[s] = 0
    /\ ping' = [ping EXCEPT ![s] = IF closed[s] THEN "done" ELSE "run"]
    /\ task' = [task EXCEPT ![s] = IF closed[s] THEN @ ELSE "rc_take"]
    /\ UNCHANGED <<regVars, clientVars, adapterVars, call, nsess, pairs, closed, sink, opened, live,
                   why, tries, chan, rx, nread, sent>>

\* ping loop: a tick that finds the session closed or the sink gone ends the loop
\* (any other tick sends a ping and changes nothing)
PingTick(s) ==
    /\ ping[s] = "run"
    /\ closed[s] \/ sink[s] = 0
    /\ ping' = [ping EXCEPT ![s] = "done"]
    /\ UNCHANGED <<regVars, clientVars, adapterVars, call, nsess, pairs, closed, sink, opened, live,
                   task, why, tries, chan, rx, nread, sent>>

\* the consumer drops the receiver
ConsumerDrop(s) ==
    /\ rx[s]
    /\ rx' = [rx EXCEPT ![s] = FALSE]
    /\ UNCHANGED <<regVars, clientVars, adapterVars, call, nsess, pairs, closed, sink, opened, live,
                   task, why, tries, ping, chan, nread, sent>>

SessionStep(s) ==
    \/ SubConnect(s)
    \/ SubSubscribe(s)
    \/ LoopCheck(s)
    \/ \E ev \in Events : ReadEvent(s, ev)
    \/ RcTake(s)
    \/ RcCheck(s)
    \/ RcWake(s)
    \/ RcConnect(s)
    \/ RcSubscribe(s)
    \/ Cleanup(s)
    \/ PingTick(s)

\* the one caller that owns the adapter
Owner == CHOOSE c \in Callers : \A d \in Callers : c <= d

\* the steps of the adapter operations in progress
AdapterStep(c) ==
    \/ ConnectStore(c)
    \/ DisconnectLock(c)
    \/ DisconnectTake(c)
    \/ \E ps \in PairLists : SubscribeStore(c, ps)
    \/ ClientStep(c)

Next ==
    \/ BeginConnect(Owner)
    \/ BeginDisconnect(Owner)
    \/ BeginSubscribeOrderbook(Owner, 1)
    \/ AdapterStep(Owner)
    \/ \E s \in Sessions : SessionStep(s)
    \/ \E s \in Sessions : ConsumerDrop(s)

Spec == Init /\ [][Next]_vars

\* the same behaviours, with every started operation and every session task running on
Progress == AdapterStep(Owner) \/ \E s \in Sessions : SessionStep(s)

FairSpec == Spec /\ WF_vars(Progress)

\* the steps that need nothing from the remote end once they are enabled: every step but the
\* read loop's stream.next(), which completes only when the transport yields an item
Scheduled(s) ==
    \/ SubConnect(s) \/ SubSubscribe(s) \/ LoopCheck(s)
    \/ RcTake(s) \/ RcCheck(s) \/ RcWake(s) \/ RcConnect(s) \/ RcSubscribe(s)
    \/ Cleanup(s) \/ PingTick(s)

\* the behaviours in which the runtime keeps running every task, that of each session and the
\* caller's started operation, and the transport may stay silent
FairSpecQuiet ==
    /\ Spec
    /\ WF_vars(AdapterStep(Owner))
    /\ \A s \in Sessions : WF_vars(Scheduled(s))

\* the owner may call subscribe_orderbook again, for the same pair, while an earlier session
\* exists; the transports stay silent but for a close frame
NextResubscribe ==
    \/ BeginConnect(Owner)
    \/ BeginDisconnect(Owner)
    \/ BeginSubscribeOrderbook(Owner, MaxSessions)
    \/ ConnectStore(Owner)
    \/ DisconnectLock(Owner)
    \/ DisconnectTake(Owner)
    \/ SubscribeStore(Owner, <<BTC_USDT>>)
    \/ ClientStep(Owner)
    \/ \E s \in Sessions : Scheduled(s)
    \/ \E s \in Sessions : ReadEvent(s, "close_frame")

SpecResubscribe == Init /\ [][NextResubscribe]_vars

\* every operation of the adapter, called by its owner one at a time; a session goes as far
\* as opening its first transport
NextGuarded ==
    \/ BeginConnect(Owner)
    \/ BeginDisconnect(Owner)
    \/ \E op \in RestOps : BeginRest(Owner, op)
    \/ BeginSubscribeOrderbook(Owner, MaxSessions)
    \/ AdapterStep(Owner)
    \/ \E s \in Sessions : SubConnect(s)

SpecGuarded == Init /\ [][NextGuarded]_vars

\* an adapter that is connected, subscribed to one pair and never disconnected, its session
\* reading one book message more than MaxMsgs, before or after a reconnect, until the
\* consumer drops the receiver
NextDelivery ==
    \/ BeginConnect(Owner)
    \/ BeginSubscribeOrderbook(Owner, 1)
    \/ ConnectStore(Owner)
    \/ SubscribeStore(Owner, <<BTC_USDT>>)
    \/ ClientStep(Owner)
    \/ \E s \in Sessions : Scheduled(s)
    \/ \E s \in Sessions, ev \in Events : ReadItem(s, ev, MaxMsgs + 1)
    \/ \E s \in Sessions : ConsumerDrop(s)

SpecDelivery == Init /\ [][NextDelivery]_vars

\* an adapter that is connected, subscribed to one pair and never disconnected, its
\* consumer keeping the receiver, the read loop seeing every kind of transport error
NextReadLoop ==
    \/ BeginConnect(Owner)
    \/ ConnectStore(Owner)
    \/ ClientStep(Owner)
    \/ BeginSubscribeOrderbook(Owner, 1)
    \/ SubscribeStore(Owner, <<BTC_USDT>>)
    \/ \E s \in Sessions : SessionStep(s)
    \/ \E s \in Sessions, e \in WsErrors : ReadEvent(s, e)

SpecReadLoop == Init /\ [][NextReadLoop]_vars

\* ------------------------------------------------------------ registry (Manager)

otherVars == <<clientVars, adapterVars, call, sessVars, auxVars>>

\* register and unregister take exchanges.write(), every other operation exchanges.read()
Writes(op) == op \in {"register", "unregister"}

\* a registry operation starts: it asks for the RwLock and queues for it
RBegin(c, op, n) ==
    /\ rcall[c].pc = "idle"
    /\ rcall' = [rcall EXCEPT ![c] = [RIdle EXCEPT !.op = op, !.pc = "wait",
                                      !.name = IF op \in {"register", "unregister", "get"}
                                               THEN n ELSE "none",
                                      !.adapter = IF op = "register" THEN 1 ELSE 0]]
    /\ rw_queue' = Append(rw_queue, c)
    /\ UNCHANGED <<otherVars, handle, latest, exchanges, is_connected, rw_holders>>

\* the RwLock is granted to the first waiter: a writer when nobody holds it, a reader when
\* no writer holds it
RGrant(c) ==
    /\ rw_queue # <<>>
    /\ c = Head(rw_queue)
    /\ IF Writes(rcall[c].op)
       THEN rw_holders = {}
       ELSE \A h \in rw_holders : ~Writes(rcall[h].op)
    /\ rw_queue' = Tail(rw_queue)
    /\ rw_holders' = rw_holders \cup {c}
    /\ rcall' = [rcall EXCEPT ![c].pc = "hold", ![c].todo = exchanges]
    /\ UNCHANGED <<otherVars, handle, latest, exchanges, is_connected>>

\* an insert that keeps the value a present key already has
insert_if_absent(map, k, v) == IF map[k] = 0 THEN [map EXCEPT ![k] = v] ELSE map

\* HashMap::insert: the value stored under the key is the new one
insert(map, k, v) == [map EXCEPT ![k] = v]

\* a remove that empties the map
remove_all(map, k) == [n \in DOMAIN map |-> 0]

\* HashMap::remove
remove(map, k) == [map EXCEPT ![k] = 0]

\* register: exchanges.insert(name, exchange), replacing an adapter of the same name
\* (the adapter insert() returns, the one replaced, is dropped)
register(c) ==
    /\ rcall[c].pc = "hold" /\ rcall[c].op = "register"
    /\ exchanges' = exchanges \cup {rcall[c].name}
    /\ handle' = insert(handle, rcall[c].name, rcall[c].adapter)
    /\ latest' = [latest EXCEPT ![rcall[c].name] = rcall[c].adapter]
    /\ \E conn \in BOOLEAN : is_connected' = [is_connected EXCEPT ![rcall[c].name] = conn]
    /\ rw_holders' = rw_holders \ {c}
    /\ rcall' = [rcall EXCEPT ![c].pc = "done", ![c].res = "Ok",
                              ![c].got = handle[rcall[c].name]]
    /\ UNCHANGED <<otherVars, rw_queue>>

\* unregister: exchanges.remove(name); Internal when the name is absent
unregister(c) ==
    /\ rcall[c].pc = "hold" /\ rcall[c].op = "unregister"
    /\ exchanges' = exchanges \ {rcall[c].name}
    /\ handle' = remove(handle, rcall[c].name)
    /\ latest' = [latest EXCEPT ![rcall[c].name] = 0]
    /\ is_connected' = [is_connected EXCEPT ![rcall[c].name] = FALSE]
    /\ rw_holders' = rw_holders \ {c}
    /\ rcall' = [rcall EXCEPT ![c].pc = "done",
                              ![c].res = IF rcall[c].name \in exchanges THEN "Ok"
                                                                        ELSE "Internal"]
    /\ UNCHANGED <<otherVars, rw_queue>>

\* get: exchanges.get(name).cloned()
get(c) ==
    /\ rcall[c].pc = "hold" /\ rcall[c].op = "get"
    /\ rw_holders' = rw_holders \ {c}
    /\ rcall' = [rcall EXCEPT ![c].pc = "done",
                              ![c].res = IF rcall[c].name \in exchanges THEN "Some"
                                                                        ELSE "None",
                              ![c].got = handle[rcall[c].name]]
    /\ UNCHANGED <<otherVars, handle, latest, exchanges, is_connected, rw_queue>>

\* list: exchanges.keys()
list(c) ==
    /\ rcall[c].pc = "hold" /\ rcall[c].op = "list"
    /\ rw_holders' = rw_holders \ {c}
    /\ rcall' = [rcall EXCEPT ![c].pc = "done", ![c].res = "Ok", ![c].names = exchanges]
    /\ UNCHANGED <<otherVars, handle, latest, exchanges, is_connected, rw_queue>>

\* a status that reports every registered adapter as connected
status_all_true(c) ==
    /\ rcall[c].pc = "hold" /\ rcall[c].op = "status"
    /\ rw_holders' = rw_holders \ {c}
    /\ rcall' = [rcall EXCEPT ![c].pc = "done", ![c].res = "Ok", ![c].names = exchanges,
                              ![c].snap = exchanges]
    /\ UNCHANGED <<otherVars, handle, latest, exchanges, is_connected, rw_queue>>

\* status: the name -> is_connected() snapshot
status(c) ==
    /\ rcall[c].pc = "hold" /\ rcall[c].op = "status"
    /\ rw_holders' = rw_holders \ {c}
    /\ rcall' = [rcall EXCEPT ![c].pc = "done", ![c].res = "Ok", ![c].names = exchanges,
                              ![c].snap = {n \in exchanges : is_connected[n]}]
    /\ UNCHANGED <<otherVars, handle, latest, exchanges, is_connected, rw_queue>>

\* what an adapter's connect() may return (MockExchange and PoloniexExchange alike)
ConnectResults == {"Ok", "Connection"}

\* a connect_all that goes on after a failure
StopsAt_never(r) == FALSE

\* connect_all: `if let Err(e) = exchange.connect().await { return Err(e) }`
StopsAt(r) == r # "Ok"

\* connect_all: one iteration of the loop over exchanges.iter(), in the map's order (any);
\* after the last one it returns Ok
connect_all(c) ==
    /\ rcall[c].pc = "hold" /\ rcall[c].op = "connect_all"
    /\ IF rcall[c].todo = {}
       THEN /\ rcall' = [rcall EXCEPT ![c].pc = "done", ![c].res = "Ok"]
            /\ rw_holders' = rw_holders \ {c}
            /\ UNCHANGED is_connected
       ELSE \E n \in rcall[c].todo, r \in ConnectResults :
              /\ is_connected' = IF r = "Ok" THEN [is_connected EXCEPT ![n] = TRUE]
                                             ELSE is_connected
              /\ IF StopsAt(r)
                 THEN /\ rcall' = [rcall EXCEPT ![c].pc = "done", ![c].res = r,
                                                ![c].todo = @ \ {n},
                                                ![c].log = Append(@, [name |-> n, r |-> r])]
                      /\ rw_holders' = rw_holders \ {c}
                 ELSE /\ rcall' = [rcall EXCEPT ![c].todo = @ \ {n},
                                                ![c].log = Append(@, [name |-> n, r |-> r])]
                      /\ UNCHANGED rw_holders
    /\ UNCHANGED <<otherVars, handle, latest, exchanges, rw_queue>>

\* a disconnect_all that returns the first error, as connect_all does
disconnect_all_stops(c) ==
    /\ rcall[c].pc = "hold" /\ rcall[c].op = "disconnect_all"
    /\ IF rcall[c].todo = {}
       THEN /\ rcall' = [rcall EXCEPT ![c].pc = "done", ![c].res = "Ok"]
            /\ rw_holders' = rw_holders \ {c}
            /\ UNCHANGED is_connected
       ELSE \E n \in rcall[c].todo, r \in {"Ok", "Internal"} :
              /\ is_connected' = [is_connected EXCEPT ![n] = FALSE]
              /\ rcall' = [rcall EXCEPT ![c].todo = @ \ {n},
                                        ![c].pc = IF r = "Ok" THEN "hold" ELSE "done",
                                        ![c].res = IF r = "Ok" THEN "none" ELSE r,
                                        ![c].log = Append(@, [name |-> n, r |-> r])]
              /\ rw_holders' = IF r = "Ok" THEN rw_holders ELSE rw_holders \ {c}
    /\ UNCHANGED <<otherVars, handle, latest, exchanges, rw_queue>>

\* disconnect_all: one iteration; an adapter's error is logged and the loop goes on
disconnect_all(c) ==
    /\ rcall[c].pc = "hold" /\ rcall[c].op = "disconnect_all"
    /\ IF rcall[c].todo = {}
       THEN /\ rcall' = [rcall EXCEPT ![c].pc = "done", ![c].res = "Ok"]
            /\ rw_holders' = rw_holders \ {c}
            /\ UNCHANGED is_connected
       ELSE \E n \in rcall[c].todo, r \in {"Ok", "Internal"} :
              /\ is_connected' = [is_connected EXCEPT ![n] = FALSE]
              /\ rcall' = [rcall EXCEPT ![c].todo = @ \ {n},
                                        ![c].log = Append(@, [name |-> n, r |-> r])]
              /\ UNCHANGED rw_holders
    /\ UNCHANGED <<otherVars, handle, latest, exchanges, rw_queue>>

\* the caller takes the result
RReturn(c) ==
    /\ rcall[c].pc = "done"
    /\ rcall' = [rcall EXCEPT ![c] = RIdle]
    /\ UNCHANGED <<otherVars, handle, latest, exchanges, is_connected, rw_queue, rw_holders>>

NextRegistry ==
    \/ \E c \in Callers, op \in RegistryOps, n \in Names : RBegin(c, op, n)
    \/ \E c \in Callers : RGrant(c)
    \/ \E c \in Callers : register(c)
    \/ \E c \in Callers : unregister(c)
    \/ \E c \in Callers : get(c)
    \/ \E c \in Callers : list(c)
    \/ \E c \in Callers : status(c)
    \/ \E c \in Callers : connect_all(c)
    \/ \E c \in Callers : disconnect_all(c)
    \/ \E c \in Callers : RReturn(c)

SpecRegistry == Init /\ [][NextRegistry]_vars

\* the registry shared by callers that change it and callers that run connect_all and
\* disconnect_all over it
NextBulk ==
    \/ \E c \in Callers, n \in Names,
          op \in {"register", "unregister", "connect_all", "disconnect_all"} : RBegin(c, op, n)
    \/ \E c \in Callers : RGrant(c)
    \/ \E c \in Callers : register(c)
    \/ \E c \in Callers : unregister(c)
    \/ \E c \in Callers : connect_all(c)
    \/ \E c \in Callers : disconnect_all(c)
    \/ \E c \in Callers : RReturn(c)

SpecBulk == Init /\ [][NextBulk]_vars

\* the registry shared by NumTasks tasks, each making any call at any time
NextLock ==
    \/ \E c \in Tasks, op \in RegistryOps, n \in Names : RBegin(c, op, n)
    \/ \E c \in Tasks : RGrant(c)
    \/ \E c \in Tasks : register(c)
    \/ \E c \in Tasks : unregister(c)
    \/ \E c \in Tasks : get(c)
    \/ \E c \in Tasks : list(c)
    \/ \E c \in Tasks : status(c)
    \/ \E c \in Tasks : connect_all(c)
    \/ \E c \in Tasks : disconnect_all(c)
    \/ \E c \in Tasks : RReturn(c)

SpecLock == Init /\ [][NextLock]_vars

\* the adapter objects of one name
Adapters == 1..NumAdapters

\* register(exchange) starts, for adapter a of name n
RBeginRegister(c, n, a) ==
    /\ rcall[c].pc = "idle"
    /\ rcall' = [rcall EXCEPT ![c] = [RIdle EXCEPT !.op = "register", !.pc = "wait",
                                      !.name = n, !.adapter = a]]
    /\ rw_queue' = Append(rw_queue, c)
    /\ UNCHANGED <<otherVars, handle, latest, exchanges, is_connected, rw_holders>>

\* register(exchange) called while no other registry call is in progress
RBeginRegisterSeq(c, n, a) ==
    /\ \A d \in Callers : rcall[d].pc = "idle"
    /\ RBeginRegister(c, n, a)

\* unregister, get or list called while no other registry call is in progress
RBeginSeq(c, op, n) ==
    /\ \A d \in Callers : rcall[d].pc = "idle"
    /\ RBegin(c, op, n)

\* membership operations only (register, unregister, get, list), one call after another
NextMembership ==
    \/ \E c \in Callers, n \in Names, a \in Adapters : RBeginRegisterSeq(c, n, a)
    \/ \E c \in Callers, op \in {"unregister", "get", "list"}, n \in Names :
            RBeginSeq(c, op, n)
    \/ \E c \in Callers : RGrant(c)
    \/ \E c \in Callers : register(c)
    \/ \E c \in Callers : unregister(c)
    \/ \E c \in Callers : get(c)
    \/ \E c \in Callers : list(c)
    \/ \E c \in Callers : RReturn(c)

SpecMembership == Init /\ [][NextMembership]_vars

\* ------------------------------------------------------------ Manager::from_config

\* name.to_lowercase(), on the names modelled
to_lowercase(name) == IF name = "Poloniex" THEN "poloniex" ELSE name

\* create_exchange: every arm of the match returns Err(Internal)
create_exchange(name) ==
    CASE to_lowercase(name) = "poloniex" ->
             [ok |-> FALSE, err |-> "Internal", msg |-> "not yet implemented"]
      [] to_lowercase(name) \in {"gate", "gateio", "gate.io"} ->
             [ok |-> FALSE, err |-> "Internal", msg |-> "not yet implemented"]
      [] OTHER ->
             [ok |-> FALSE, err |-> "Internal", msg |-> "unknown exchange"]

\* an entry that goes on without a visit to the factory
IsSkipped_never(entry) == FALSE

\* from_config: `if !exchange_config.enabled { continue }`
IsSkipped(entry) == entry # "enabled"

\* from_config: Self::new(), then the loop over config.exchanges starts
FromConfigNew ==
    /\ fc.pc = "idle"
    /\ exchanges = {}
    /\ fc' = [fc EXCEPT !.pc = "run", !.todo = {n \in ConfigNames : config[n] # "absent"}]
    /\ UNCHANGED <<bot, sk, clientVars, adapterVars, call, sessVars, regVarsBase, config, pureVars>>

\* from_config: one iteration of the loop over config.exchanges, in the map's order (any);
\* after the last one it returns the manager
from_config ==
    /\ fc.pc = "run"
    /\ IF fc.todo = {}
       THEN /\ fc' = [fc EXCEPT !.pc = "done", !.res = "Ok"]
            /\ UNCHANGED exchanges
       ELSE \E n \in fc.todo :
              IF IsSkipped(config[n])
              THEN /\ fc' = [fc EXCEPT !.todo = @ \ {n}]
                   /\ UNCHANGED exchanges
              ELSE IF create_exchange(n).ok
                   THEN /\ exchanges' = exchanges \cup {to_lowercase(n)}
                        /\ fc' = [fc EXCEPT !.todo = @ \ {n}]
                   ELSE /\ fc' = [fc EXCEPT !.pc = "done", !.todo = @ \ {n},
                                            !.res = create_exchange(n).err, !.at = n]
                        /\ UNCHANGED exchanges
    /\ UNCHANGED <<bot, sk, clientVars, adapterVars, call, sessVars, is_connected, rw_queue,
                   rw_holders, rcall, handle, latest, config, pureVars>>

\* list() on the manager from_config returned
FromConfigList ==
    /\ fc.pc = "done" /\ fc.res = "Ok" /\ ~fc.listed
    /\ fc' = [fc EXCEPT !.listed = TRUE, !.names = exchanges]
    /\ UNCHANGED <<bot, sk, clientVars, adapterVars, call, sessVars, regVarsBase, config, pureVars>>

\* any configuration of the modelled entries
InitConfig ==
    /\ InitBase
    /\ config \in [ConfigNames -> EntryStates]
    /\ fc = FcIdle
    /\ book = NoBook
    /\ conv = NoConv
    /\ req = NoReq

NextFromConfig ==
    \/ FromConfigNew
    \/ from_config
    \/ FromConfigList

SpecFromConfig == InitConfig /\ [][NextFromConfig]_vars

\* the Manager's methods called one after another, each returning before the next starts
NextSerial ==
    \/ \E c \in Callers, n \in Names, a \in Adapters : RBeginRegisterSeq(c, n, a)
    \/ \E c \in Callers, op \in RegistryOps \ {"register"}, n \in Names : RBeginSeq(c, op, n)
    \/ \E c \in Callers : RGrant(c)
    \/ \E c \in Callers : register(c)
    \/ \E c \in Callers : unregister(c)
    \/ \E c \in Callers : get(c)
    \/ \E c \in Callers : list(c)
    \/ \E c \in Callers : status(c)
    \/ \E c \in Callers : connect_all(c)
    \/ \E c \in Callers : disconnect_all(c)
    \/ \E c \in Callers : RReturn(c)

SpecSerial == Init /\ [][NextSerial]_vars

\* ------------------------------------------------------------ the sink mutex

\* a step of a task while it neither holds nor waits for the sink mutex: connect_async,
\* the read loop's next item, reconnect()'s is_closed() checks, the ping loop's tick and
\* is_closed() check, close()'s is_closed() and mark_closed(); it ends where the task asks
\* for the mutex, or where the task ends
SinkRun(t) ==
    /\ sk.at[t] = "run"
    /\ LET site == sk.site[t]
           goes(to, at) == sk' = [sk EXCEPT !.site[t] = to, !.at[t] = at]
       IN CASE site \in {"connect", "rc_connect"} ->
                 \E ok \in BOOLEAN :
                     /\ ok => sk.opens < MaxOpens
                     /\ IF ok THEN goes(site, "want")
                        ELSE IF site = "connect" THEN goes("done", "run")
                        ELSE goes("cleanup", "want")
            [] site = "loop" ->
                 \/ goes("cleanup", "want")
                 \/ goes("rc_take", "want")
            [] site \in {"rc_check", "rc_sleep"} ->
                 IF sk.closed THEN goes("cleanup", "want")
                 ELSE goes(IF site = "rc_check" THEN "rc_sleep" ELSE "rc_connect", "run")
            [] site = "tick" ->
                 IF sk.closed THEN goes("done", "run") ELSE goes("tick", "want")
            [] site = "idle" ->
                 IF sk.closed THEN goes("done", "run")
                 ELSE sk' = [sk EXCEPT !.closed = TRUE, !.site[t] = "close", !.at[t] = "want"]
            [] OTHER -> FALSE
    /\ UNCHANGED <<bot, clientVars, adapterVars, call, sessVars, regVarsBase, config, fc, pureVars>>

\* a lock().await that does not wait for the mutex to be free
SinkLock_nowait(t) ==
    /\ sk.at[t] = "want"
    /\ sk' = [sk EXCEPT !.guard = t, !.at[t] = "held"]
    /\ UNCHANGED <<bot, clientVars, adapterVars, call, sessVars, regVarsBase, config, fc, pureVars>>

\* self.sink.lock().await completes: the mutex is free and the task gets the guard
SinkLock(t) ==
    /\ sk.at[t] = "want"
    /\ sk.guard = "none"
    /\ sk' = [sk EXCEPT !.guard = t, !.at[t] = "held"]
    /\ UNCHANGED <<bot, clientVars, adapterVars, call, sessVars, regVarsBase, config, fc, pureVars>>

\* what a task does first with the guard: connect() stores the new sink and drops the guard;
\* send_subscribe_message and the ping loop start sink.send() on the stored sink; close(),
\* reconnect() and the cleanup take() the sink and start sink.close(); with no sink stored
\* each of them drops the guard and goes on without a write
SinkHeld(t) ==
    /\ sk.at[t] = "held"
    /\ LET site == sk.site[t]
           free(to, at) == sk' = [sk EXCEPT !.guard = "none", !.site[t] = to, !.at[t] = at]
       IN CASE site \in {"connect", "rc_connect"} ->
                 sk' = [sk EXCEPT !.guard = "none", !.stored = TRUE, !.opens = @ + 1,
                                  !.site[t] = IF site = "connect" THEN "subscribe"
                                                                  ELSE "rc_subscribe",
                                  !.at[t] = "want"]
            [] sk.stored /\ site \in {"subscribe", "rc_subscribe", "tick"} ->
                 sk' = [sk EXCEPT !.writing = @ \cup {t}, !.at[t] = "writing"]
            [] sk.stored /\ site \in {"close", "rc_take", "cleanup"} ->
                 sk' = [sk EXCEPT !.stored = FALSE, !.writing = @ \cup {t},
                                  !.at[t] = "writing"]
            [] ~sk.stored /\ site \in {"subscribe", "tick", "close", "cleanup"} ->
                 free("done", "run")
            [] ~sk.stored /\ site = "rc_subscribe" -> free("cleanup", "want")
            [] ~sk.stored /\ site = "rc_take" -> free("rc_check", "run")
            [] OTHER -> FALSE
    /\ UNCHANGED <<bot, clientVars, adapterVars, call, sessVars, regVarsBase, config, fc, pureVars>>

\* the write (sink.send or sink.close) returns, with or without an error, and the guard is
\* dropped: subscribe() spawns the ping loop and enters the read loop, or returns the error;
\* reconnect() goes on; the ping loop waits for its next tick; close() and the cleanup end
SinkWritten(t) ==
    /\ sk.at[t] = "writing"
    /\ LET site == sk.site[t]
           free(to, at) == [sk EXCEPT !.guard = "none", !.writing = @ \ {t},
                                      !.site[t] = to, !.at[t] = at]
       IN \E ok \in BOOLEAN :
            CASE site = "subscribe" ->
                   sk' = IF ok THEN [free("loop", "run") EXCEPT !.site["ping"] = "tick"]
                               ELSE free("done", "run")
              [] site = "rc_subscribe" ->
                   sk' = IF ok THEN free("loop", "run") ELSE free("cleanup", "want")
              [] site = "rc_take" -> sk' = free("rc_check", "run")
              [] site = "tick" -> sk' = free("tick", "run")
              [] OTHER -> sk' = free("done", "run")
    /\ UNCHANGED <<bot, clientVars, adapterVars, call, sessVars, regVarsBase, config, fc, pureVars>>

NextSink ==
    \/ \E t \in SinkUsers : SinkRun(t)
    \/ \E t \in SinkUsers : SinkLock(t)
    \/ \E t \in SinkUsers : SinkHeld(t)
    \/ \E t \in SinkUsers : SinkWritten(t)

SpecSink == Init /\ [][NextSink]_vars

\* ------------------------------------------------------------ Bot

\* a caller invokes try_lock_pair(p) or unlock_pair(p) and asks for executing_pairs.write()
BeginPair(c, op, p) ==
    /\ bot.pc[c] = "idle"
    /\ bot' = [bot EXCEPT !.pc[c] = op, !.pair[c] = p]
    /\ UNCHANGED <<clientVars, adapterVars, call, sessVars, regVarsBase, config, fc, pureVars, sk>>

\* a write() that is granted while another caller holds the lock
PairsWrite_shared(c) ==
    /\ bot.pc[c] \in {"try_lock_pair", "unlock_pair"}
    /\ bot' = [bot EXCEPT !.guard = c,
                          !.pc[c] = IF @ = "try_lock_pair" THEN "contains" ELSE "remove"]
    /\ UNCHANGED <<clientVars, adapterVars, call, sessVars, regVarsBase, config, fc, pureVars, sk>>

\* self.executing_pairs.write().await completes: no other caller holds the lock
PairsWrite(c) ==
    /\ bot.pc[c] \in {"try_lock_pair", "unlock_pair"}
    /\ bot.guard = 0
    /\ bot' = [bot EXCEPT !.guard = c,
                          !.pc[c] = IF @ = "try_lock_pair" THEN "contains" ELSE "remove"]
    /\ UNCHANGED <<clientVars, adapterVars, call, sessVars, regVarsBase, config, fc, pureVars, sk>>

\* try_lock_pair under the write lock: pairs.contains(pair) returns false and drops the
\* lock; otherwise pairs.insert(pair) and true
try_lock_pair(c) ==
    /\ LET p == bot.pair[c]
       IN CASE bot.pc[c] = "contains" ->
                 IF p \in bot.executing_pairs
                 THEN bot' = [bot EXCEPT !.pc[c] = "done", !.ret[c] = "false", !.guard = 0]
                 ELSE bot' = [bot EXCEPT !.pc[c] = "insert"]
            [] bot.pc[c] = "insert" ->
                 bot' = [bot EXCEPT !.executing_pairs = @ \cup {p},
                                    !.held[p] = @ + 1,
                                    !.pc[c] = "done", !.ret[c] = "true", !.guard = 0]
            [] OTHER -> FALSE
    /\ UNCHANGED <<clientVars, adapterVars, call, sessVars, regVarsBase, config, fc, pureVars, sk>>

\* unlock_pair under the write lock: pairs.remove(pair)
unlock_pair(c) ==
    /\ bot.pc[c] = "remove"
    /\ bot' = [bot EXCEPT !.executing_pairs = @ \ {bot.pair[c]},
                          !.held[bot.pair[c]] = 0,
                          !.pc[c] = "done", !.ret[c] = "none", !.guard = 0]
    /\ UNCHANGED <<clientVars, adapterVars, call, sessVars, regVarsBase, config, fc, pureVars, sk>>

\* start(): under the running mutex, return AlreadyRunning or set running; the caller goes
\* on to started_at and the startup notification
start(c) ==
    /\ bot.pc[c] = "idle"
    /\ bot' = IF bot.running
              THEN [bot EXCEPT !.pc[c] = "done", !.ret[c] = "AlreadyRunning"]
              ELSE [bot EXCEPT !.running = TRUE, !.pc[c] = "startup"]
    /\ UNCHANGED <<clientVars, adapterVars, call, sessVars, regVarsBase, config, fc, pureVars, sk>>

\* run_main_loop, in the task that called start(): entered after the startup notification;
\* interval.tick().await; then is_running(): break and return Ok, or detect_and_execute and
\* the next tick
run_main_loop(c) ==
    /\ CASE bot.pc[c] = "startup" -> bot' = [bot EXCEPT !.pc[c] = "tick"]
         [] bot.pc[c] = "tick" -> bot' = [bot EXCEPT !.pc[c] = "is_running"]
         [] bot.pc[c] = "is_running" ->
              bot' = IF bot.running THEN [bot EXCEPT !.pc[c] = "tick"]
                                    ELSE [bot EXCEPT !.pc[c] = "done", !.ret[c] = "Ok"]
         [] OTHER -> FALSE
    /\ UNCHANGED <<clientVars, adapterVars, call, sessVars, regVarsBase, config, fc, pureVars, sk>>

\* stop(): under the running mutex, return Ok when not running, else clear running; then the
\* shutdown notification, the notifier and the storage are closed and Ok is returned
stop(c) ==
    /\ CASE bot.pc[c] = "idle" ->
              bot' = IF bot.running
                     THEN [bot EXCEPT !.running = FALSE, !.pc[c] = "stopping"]
                     ELSE [bot EXCEPT !.pc[c] = "done", !.ret[c] = "Ok"]
         [] bot.pc[c] = "stopping" -> bot' = [bot EXCEPT !.pc[c] = "done", !.ret[c] = "Ok"]
         [] OTHER -> FALSE
    /\ UNCHANGED <<clientVars, adapterVars, call, sessVars, regVarsBase, config, fc, pureVars, sk>>

\* the caller takes the result
BotReturn(c) ==
    /\ bot.pc[c] = "done"
    /\ bot' = [bot EXCEPT !.pc[c] = "idle", !.pair[c] = <<>>, !.ret[c] = "none"]
    /\ UNCHANGED <<clientVars, adapterVars, call, sessVars, regVarsBase, config, fc, pureVars, sk>>

NextBot ==
    \/ \E c \in Callers, op \in {"try_lock_pair", "unlock_pair"}, p \in {BTC_USDT, ETH_USDT} :
            BeginPair(c, op, p)
    \/ \E c \in Callers : PairsWrite(c)
    \/ \E c \in Callers : try_lock_pair(c)
    \/ \E c \in Callers : unlock_pair(c)
    \/ \E c \in Callers : start(c)
    \/ \E c \in Callers : run_main_loop(c)
    \/ \E c \in Callers : stop(c)
    \/ \E c \in Callers : BotReturn(c)

SpecBot == Init /\ [][NextBot]_vars

\* ------------------------------------------------------------ pair and symbol strings

\* the characters of a pair string: two letters, the slash and the underscore
PairChars == {"B", "Q", "/", "_"}

\* pair strings of at most MaxPairLen characters
PairStrings == UNION {[1..k -> PairChars] : k \in 0..MaxPairLen}

\* pair_to_symbol applied to the pair
ToSymbol ==
    /\ conv.pc = "pair"
    /\ conv' = [conv EXCEPT !.pc = "symbol", !.symbol = pair_to_symbol(conv.pair)]
    /\ UNCHANGED <<bot, sk, clientVars, adapterVars, call, sessVars, regVarsBase, config, fc, book, req>>

\* symbol_to_pair applied to the symbol
ToPair ==
    /\ conv.pc = "symbol"
    /\ conv' = [conv EXCEPT !.pc = "done", !.back = symbol_to_pair(conv.symbol)]
    /\ UNCHANGED <<bot, sk, clientVars, adapterVars, call, sessVars, regVarsBase, config, fc, book, req>>

\* any pair string
InitPairs ==
    /\ InitBase
    /\ config = [n \in ConfigNames |-> "absent"]
    /\ fc = FcIdle
    /\ book = NoBook
    /\ req = NoReq
    /\ \E p \in PairStrings : conv = [NoConv EXCEPT !.pc = "pair", !.pair = p]

NextPairs ==
    \/ ToSymbol
    \/ ToPair

SpecPairs == InitPairs /\ [][NextPairs]_vars

\* send_subscribe_message: normalize_depth applied to the configured depth
NormalizeDepth ==
    /\ conv.pc = "depth"
    /\ conv' = [conv EXCEPT !.pc = "sent", !.sent_depth = normalize_depth(conv.depth)]
    /\ UNCHANGED <<bot, sk, clientVars, adapterVars, call, sessVars, regVarsBase, config, fc, book, req>>

\* any depth a WebSocketConfig can hold
InitDepth ==
    /\ InitBase
    /\ config = [n \in ConfigNames |-> "absent"]
    /\ fc = FcIdle
    /\ book = NoBook
    /\ req = NoReq
    /\ \E d \in 0..MaxDepth : conv = [NoConv EXCEPT !.pc = "depth", !.depth = d]

SpecDepth == InitDepth /\ [][NormalizeDepth]_vars

\* ------------------------------------------------------------ request payload

\* parameter names, as byte strings over two byte values
ParamKeys == UNION {[1..k -> {1, 2}] : k \in 1..2}

\* the name of the timestamp parameter a signed GET or DELETE adds
SignTimestampKey == <<2, 1>>

\* parameter values: one that urlencoding leaves alone and one it does not
ParamValues == {"v", "a b"}

\* urlencoding::encode
urlencode(v) == IF v = "a b" THEN "a%20b" ELSE v

RECURSIVE KeyLess(_, _)
\* String's Ord, as used by a.0.cmp(b.0): byte by byte, a proper prefix first
KeyLess(a, b) ==
    IF a = <<>> THEN b # <<>>
    ELSE IF b = <<>> THEN FALSE
    ELSE IF a[1] # b[1] THEN a[1] < b[1]
    ELSE KeyLess(Tail(a), Tail(b))

\* a sort that leaves the sequence in the order it came
sort_by_none(keys) == keys

RECURSIVE sort_by(_)
\* sorted_params.sort_by(|a, b| a.0.cmp(b.0)), over the keys in iteration order
sort_by(keys) ==
    IF keys = <<>> THEN <<>>
    ELSE LET rest == sort_by(Tail(keys))
             k == Head(keys)
         IN  SelectSeq(rest, LAMBDA x : KeyLess(x, k)) \o <<k>> \o
             SelectSeq(rest, LAMBDA x : ~KeyLess(x, k))

\* Client::sign, the string the HMAC is computed over: METHOD, newline, endpoint, newline,
\* and then one of three forms: the payload as it is, `signTimestamp=<ts>` alone, or
\* `requestBody=<payload>&signTimestamp=<ts>`. A GET or DELETE payload is empty when it has
\* no entry; a POST payload is a JSON object and never empty
sign(method, payload) ==
    [method |-> method, payload |-> payload,
     form |-> IF method = "GET"
              THEN IF payload = <<>> THEN "signTimestamp" ELSE "payload"
              ELSE IF method = "DELETE" /\ payload = <<>> THEN "signTimestamp"
                                                          ELSE "requestBody"]

\* Client::request up to the signature: a signed GET or DELETE inserts signTimestamp; the
\* HashMap is iterated in some order; GET and DELETE sort the entries by key and join
\* key=urlencode(value), POST serializes the map as it iterates; a signed request is signed
\* over the payload
BuildPayload ==
    /\ req.pc = "params"
    /\ LET stamped == req.signed /\ req.method \in {"GET", "DELETE"}
           keys == DOMAIN req.params \cup (IF stamped THEN {SignTimestampKey} ELSE {})
           params == [k \in keys |-> IF stamped /\ k = SignTimestampKey THEN "timestamp"
                                                                        ELSE req.params[k]]
       IN \E order \in [1..Cardinality(keys) -> keys] :
             /\ \A i, j \in DOMAIN order : order[i] = order[j] => i = j
             /\ LET payload ==
                     IF req.method \in {"GET", "DELETE"}
                     THEN LET sorted == sort_by(order)
                          IN [i \in DOMAIN sorted |->
                                 <<sorted[i], urlencode(params[sorted[i]])>>]
                     ELSE [i \in DOMAIN order |-> <<order[i], params[order[i]]>>]
                IN req' = [req EXCEPT
                             !.pc = "done", !.params = params, !.order = order,
                             !.payload = payload,
                             !.sign_payload = IF req.signed THEN sign(req.method, payload)
                                                            ELSE @]
    /\ UNCHANGED <<bot, sk, clientVars, adapterVars, call, sessVars, regVarsBase, config, fc, book, conv>>

\* any request: a method, signed or not, and at most MaxParams parameters
InitRequest ==
    /\ InitBase
    /\ config = [n \in ConfigNames |-> "absent"]
    /\ fc = FcIdle
    /\ book = NoBook
    /\ conv = NoConv
    /\ \E m \in {"GET", "DELETE", "POST"}, sg \in BOOLEAN, K \in SUBSET ParamKeys :
          /\ Cardinality(K) <= MaxParams
          /\ \E ps \in [K -> ParamValues] :
                req = [NoReq EXCEPT !.pc = "params", !.method = m, !.signed = sg, !.params = ps]

SpecRequest == InitRequest /\ [][BuildPayload]_vars

\* ------------------------------------------------------------ order book decoding

\* the strings of a raw level: a zero, a positive number, and text that is not a number
Strings == {"0.00", "1.5", "x"}

\* Decimal::from_str, the value in hundredths
from_str(str) ==
    IF str = "x" THEN [ok |-> FALSE, v |-> 0]
    ELSE [ok |-> TRUE, v |-> IF str = "1.5" THEN 150 ELSE 0]

\* Decimal::is_zero
is_zero(d) == d = 0

\* sequences of at most n elements of S
SeqUpTo(S, n) == UNION {[1..k -> S] : k \in 0..n}

\* the raw levels of a streaming book message: each an array of strings
WsLevels == SeqUpTo(SeqUpTo(Strings, 2) \ {<<>>}, MaxLevels)

\* the raw levels of a REST order book: one flat array price, quantity, price, quantity...
RestLevels == SeqUpTo(Strings, 2 * MaxLevels)

\* parse_levels: "Skip zero quantity (removed level)"
skips(quantity) == is_zero(quantity)

RECURSIVE parse_levels(_)
\* websocket.rs parse_levels
parse_levels(levels) ==
    IF levels = <<>> THEN <<>>
    ELSE LET level == Head(levels)
             rest == parse_levels(Tail(levels))
         IN  IF Len(level) < 2 THEN rest
             ELSE LET price == from_str(level[1])
                      quantity == from_str(level[2])
                  IN  IF ~price.ok \/ ~quantity.ok THEN rest
                      ELSE IF skips(quantity.v) THEN rest
                      ELSE <<[price |-> price.v, quantity |-> quantity.v]>> \o rest

RECURSIVE parse_price_levels(_)
\* utils.rs parse_price_levels, over data.chunks(2)
parse_price_levels(data) ==
    IF data = <<>> THEN <<>>
    ELSE LET chunk == SubSeq(data, 1, IF Len(data) < 2 THEN Len(data) ELSE 2)
             rest == parse_price_levels(SubSeq(data, Len(chunk) + 1, Len(data)))
         IN  IF Len(chunk) = 2
             THEN LET price == from_str(chunk[1])
                      quantity == from_str(chunk[2])
                  IN  IF ~price.ok \/ ~quantity.ok THEN rest
                      ELSE <<[price |-> price.v, quantity |-> quantity.v]>> \o rest
             ELSE rest

\* parse_message builds the Orderbook of a streaming book message
parse_message ==
    /\ book.src = "ws" /\ book.pc = "raw"
    /\ book' = [book EXCEPT !.pc = "done",
                            !.bids = parse_levels(book.raw_bids),
                            !.asks = parse_levels(book.raw_asks)]
    /\ UNCHANGED <<bot, sk, clientVars, adapterVars, call, sessVars, regVarsBase, config, fc, conv, req>>

\* OrderbookResponse::to_orderbook builds the Orderbook get_orderbook returns
to_orderbook ==
    /\ book.src = "rest" /\ book.pc = "raw"
    /\ book' = [book EXCEPT !.pc = "done",
                            !.bids = parse_price_levels(book.raw_bids),
                            !.asks = parse_price_levels(book.raw_asks)]
    /\ UNCHANGED <<bot, sk, clientVars, adapterVars, call, sessVars, regVarsBase, config, fc, conv, req>>

\* any raw order book, from the stream or from the REST endpoint
InitDecode ==
    /\ InitBase
    /\ config = [n \in ConfigNames |-> "absent"]
    /\ fc = FcIdle
    /\ conv = NoConv
    /\ req = NoReq
    /\ \/ \E b \in WsLevels, a \in WsLevels :
              book = [NoBook EXCEPT !.src = "ws", !.pc = "raw", !.raw_bids = b, !.raw_asks = a]
       \/ \E b \in RestLevels, a \in RestLevels :
              book = [NoBook EXCEPT !.src = "rest", !.pc = "raw", !.raw_bids = b, !.raw_asks = a]

NextDecode ==
    \/ parse_message
    \/ to_orderbook

SpecDecode == InitDecode /\ [][NextDecode]_vars

\* ------------------------------------------------------------ properties: client

\* C1: of the calls to Client::request issued one after another within one rate-limit
\* window, the first RateLimit are admitted and call RateLimit + 1 fails with
\* RateLimitExceeded{current: RateLimit, limit: RateLimit}.
C1_LimitPlusOneRejected ==
    \A c \in Callers :
        (call[c].op = "request" /\ call[c].pc \in {"send", "done"} /\ call[c].ord > 0) =>
            /\ call[c].ord <= RateLimit => call[c].cerr.kind # "RateLimitExceeded"
            /\ call[c].ord = RateLimit + 1 =>
                   /\ call[c].cerr.kind = "RateLimitExceeded"
                   /\ call[c].cerr.current = RateLimit
                   /\ call[c].cerr.limit = RateLimit

\* C1, the case: call RateLimit + 1 of a window has passed check_rate_limit
C1_Reached ==
    \E c \in Callers :
        call[c].op = "request" /\ call[c].pc \in {"send", "done"} /\ call[c].ord = RateLimit + 1

\* C2: under any interleaving of concurrent callers, request_count never exceeds the limit.
C2_CountWithinLimit == request_count <= RateLimit

\* C2, the case: two callers are past check_rate_limit at the same time
C2_Reached == Cardinality({c \in Callers : call[c].pc = "send"}) >= 2

\* ------------------------------------------------------------ properties: REST errors

\* C8: place_order, cancel_order, get_order and get_balances return a provider rejection
\* with code 21603, 21606 or 21601 as InsufficientFunds, OrderNotFound or
\* PairNotSupported, and a rejection with any other code as Api.
C8_ProviderCodesMapped ==
    \A c \in Callers :
        (/\ call[c].op \in {"place_order", "cancel_order", "get_order", "get_balances"}
         /\ call[c].pc = "done"
         /\ call[c].cerr.kind = "Api") =>
            call[c].res = map_client_error(call[c].cerr)

\* C8, the case: one of the four operations was rejected with a code the adapter knows
C8_Reached ==
    \E c \in Callers :
        /\ call[c].op \in {"place_order", "cancel_order", "get_order", "get_balances"}
        /\ call[c].pc = "done"
        /\ call[c].cerr.kind = "Api"
        /\ call[c].cerr.code \in {InsufficientFundsCode, OrderNotFoundCode, PairNotSupportedCode}

\* C9: get_orderbook fails with Connection when the adapter is not connected, and with
\* PairNotSupported when the exchange rejects the request for a market it does not have.
C9_GetOrderbookErrors ==
    \A c \in Callers :
        (call[c].op = "get_orderbook" /\ call[c].pc = "done") =>
            /\ ~call[c].saw => call[c].res = "Connection"
            /\ (call[c].cerr.kind = "Api" /\ call[c].cerr.code = PairNotSupportedCode) =>
                   call[c].res = "PairNotSupported"

\* C9, the case: get_orderbook was rejected by the exchange with the no-such-market code
C9_Reached ==
    \E c \in Callers :
        /\ call[c].op = "get_orderbook" /\ call[c].pc = "done"
        /\ call[c].cerr.kind = "Api" /\ call[c].cerr.code = PairNotSupportedCode

\* ------------------------------------------------------------ properties: streaming

\* C3: whenever the task of a streaming session has ended, the channel handed to the
\* caller is eventually closed.
C3_ChannelEventuallyClosed ==
    \A s \in Sessions : [](task[s] = "done" => <>ChannelClosed(s))

\* C3, the case: a session's task has ended while the consumer still holds the receiver
C3_Reached == \E s \in Sessions : task[s] = "done" /\ rx[s]

\* C4: a closed-connection error read by a session that is not closed leads to exactly one
\* connect attempt; every transport the loop reads from got one subscription message, equal
\* to the first (the session's pairs as symbols, the normalized depth); and every book
\* message read, before and after the reconnect, is on the channel, decoded, in order.
C4_ReconnectsOnceAndResubscribes ==
    \A s \in Sessions :
        /\ tries[s] <= 1
        /\ (why[s] = "ConnectionClosed" /\ ~closed[s]) =>
               /\ task[s] \in {"rc_take", "rc_check", "rc_sleep", "rc_connect", "rc_sub", "cleanup"}
               /\ task[s] \in {"rc_take", "rc_check", "rc_sleep", "rc_connect"} => tries[s] = 0
               /\ task[s] \in {"rc_sub", "cleanup"} => tries[s] = 1
        /\ \A i \in 1..Len(sent[s]) :
               /\ sent[s][i].t = i
               /\ sent[s][i].msg = sent[s][1].msg
               /\ sent[s][i].msg.depth = DEFAULT_DEPTH
               /\ Len(sent[s][i].msg.symbols) = Len(pairs[s])
               /\ \A k \in 1..Len(pairs[s]) :
                      symbol_to_pair(sent[s][i].msg.symbols[k]) = pairs[s][k]
        /\ task[s] \in {"loop", "next"} => Len(sent[s]) = opened[s]
        /\ Len(chan[s]) = nread[s]
        /\ \A i \in 1..Len(chan[s]) :
               /\ chan[s][i].n = i
               /\ chan[s][i].pair = pairs[s][1]
               /\ chan[s][i].t \in 1..Len(sent[s])

\* C4, the case: the session resubscribed after a closed-connection error and a book
\* message read from the new transport is on the channel
C4_Reached ==
    \E s \in Sessions :
        /\ Len(sent[s]) >= 2
        /\ sent[s][2].cause = "ConnectionClosed"
        /\ \E i \in 1..Len(chan[s]) : chan[s][i].t = 2

\* C5: once close() has returned for a session, the session opens no transport and sends
\* no subscription message.
C5_NothingOpenedAfterClose ==
    [][\A s \in Sessions :
          (closed[s] /\ ~(wm_lock # 0 /\ websocket_manager = s)) =>
              (opened'[s] = opened[s] /\ sent'[s] = sent[s])]_vars

\* C5, the case: close() has returned while the session's task was still to connect
C5_Reached ==
    \E s \in Sessions :
        closed[s] /\ wm_lock = 0 /\ task[s] \in {"spawned", "rc_connect"}

\* C6: a disconnect() that directly follows a disconnect() returns Ok and leaves the
\* connected flag, every session's closed flag and sink, and the stored manager as the
\* first left them; every disconnect() returns Ok, also when closing the transport failed.
C6_DisconnectIdempotent ==
    /\ [](\A c \in Callers :
            (call[c].op = "disconnect" /\ call[c].pc = "done") => call[c].res = "Ok")
    /\ [][\A c \in Callers :
            (call'[c] # call[c] /\ call'[c].op = "disconnect" /\ call'[c].rep) =>
                /\ connected' = connected
                /\ closed' = closed
                /\ sink' = sink
                /\ websocket_manager' = websocket_manager]_vars

\* C6, the case: the second of two disconnect() calls in a row has returned, with a
\* streaming session stored in the adapter
C6_Reached ==
    \E c \in Callers :
        /\ call[c].op = "disconnect" /\ call[c].rep /\ call[c].pc = "done"
        /\ call[c].res = "Ok"
        /\ websocket_manager # 0 /\ closed[websocket_manager]

\* C7: subscribe_orderbook goes on only if it saw the connected flag true; otherwise
\* (never connected, or after disconnect()) it returns Connection, and that step creates no
\* session, stores no manager and opens no transport.
C7_SubscribeRequiresConnected ==
    /\ [](\A c \in Callers :
            call[c].op = "subscribe_orderbook" =>
                /\ (call[c].pc = "s_store" \/ call[c].res = "Ok") => call[c].saw
                /\ ~call[c].saw =>
                       call[c].pc = "done" /\ call[c].res = "Connection" /\ call[c].sess = 0)
    /\ [](after_disconnect => ~connected)
    /\ [][\A c \in Callers :
            (call[c].pc = "idle" /\ call'[c].op = "subscribe_orderbook" /\ ~connected) =>
                /\ call'[c].res = "Connection"
                /\ nsess' = nsess
                /\ websocket_manager' = websocket_manager
                /\ opened' = opened
                /\ live' = live
                /\ task' = task]_vars

\* C7, the case: subscribe_orderbook called right after disconnect() has failed
C7_Reached ==
    \E c \in Callers :
        /\ call[c].op = "subscribe_orderbook" /\ call[c].rep
        /\ call[c].pc = "done" /\ call[c].res = "Connection"

\* ------------------------------------------------------------ properties: registry

\* C10: connect_all invokes connect() on the registered adapters one at a time, each at
\* most once; a failure is the last invocation it makes and its error is the result; Ok is
\* returned only when every adapter was invoked and none failed; and the failing step
\* changes no adapter's connected flag.
C10_ConnectAllStopsAtFirstFailure ==
    /\ [](\A c \in Callers :
            rcall[c].op = "connect_all" =>
                /\ \A i \in 1..Len(rcall[c].log) :
                       rcall[c].log[i].r # "Ok" =>
                           /\ i = Len(rcall[c].log)
                           /\ rcall[c].pc = "done"
                           /\ rcall[c].res = rcall[c].log[i].r
                /\ \A i, j \in 1..Len(rcall[c].log) :
                       i # j => rcall[c].log[i].name # rcall[c].log[j].name
                /\ rcall[c].pc = "done" =>
                       /\ rcall[c].res \in ConnectResults
                       /\ rcall[c].res = "Ok" =>
                              /\ rcall[c].todo = {}
                              /\ \A i \in 1..Len(rcall[c].log) : rcall[c].log[i].r = "Ok"
                       /\ rcall[c].res # "Ok" =>
                              /\ Len(rcall[c].log) > 0
                              /\ rcall[c].log[Len(rcall[c].log)].r = rcall[c].res)
    /\ [][\A c \in Callers :
            (/\ rcall[c].op = "connect_all" /\ rcall[c].pc = "hold"
             /\ rcall'[c].pc = "done" /\ rcall'[c].res # "Ok") =>
                is_connected' = is_connected]_vars

\* C10, the case: connect_all returned an adapter's Connection error with another
\* registered adapter still to visit
C10_Reached ==
    \E c \in Callers :
        /\ rcall[c].op = "connect_all" /\ rcall[c].pc = "done"
        /\ rcall[c].res = "Connection"
        /\ rcall[c].todo # {}

\* C11: disconnect_all invokes disconnect() once on every registered adapter, goes on after
\* an adapter's error, and returns Ok: while it runs, the adapters visited and those still
\* to visit are exactly the registered ones; it returns only with none left, and with Ok.
C11_DisconnectAllVisitsEveryAdapter ==
    /\ [](\A c \in Callers :
            rcall[c].op = "disconnect_all" =>
                /\ \A i, j \in 1..Len(rcall[c].log) :
                       i # j => rcall[c].log[i].name # rcall[c].log[j].name
                /\ \A i \in 1..Len(rcall[c].log) : rcall[c].log[i].name \notin rcall[c].todo
                /\ rcall[c].pc = "hold" =>
                       rcall[c].todo \cup {rcall[c].log[i].name : i \in 1..Len(rcall[c].log)}
                           = exchanges
                /\ rcall[c].pc = "done" => (rcall[c].res = "Ok" /\ rcall[c].todo = {}))
    /\ [][\A c \in Callers :
            (/\ rcall[c].op = "disconnect_all" /\ rcall[c].pc = "hold"
             /\ rcall'[c].pc = "done") =>
                (rcall'[c].log = rcall[c].log /\ exchanges' = exchanges)]_vars

\* C11, the case: disconnect_all has returned after visiting two adapters, the first of
\* which failed
C11_Reached ==
    \E c \in Callers :
        /\ rcall[c].op = "disconnect_all" /\ rcall[c].pc = "done"
        /\ Len(rcall[c].log) = 2
        /\ rcall[c].log[1].r = "Internal"

\* ------------------------------------------------------------ properties: from_config

\* C12: from_config fails, with Internal, exactly when some entry is enabled (each names
\* an unknown or unimplemented provider); the entry it fails at is an enabled one, never a
\* disabled one; and with no enabled entry it returns a registry holding no adapter.
C12_FromConfigFailsOnEnabledEntry ==
    fc.pc = "done" =>
        /\ fc.res \in {"Ok", "Internal"}
        /\ fc.res = "Internal" <=> \E n \in ConfigNames : config[n] = "enabled"
        /\ fc.res = "Internal" =>
               /\ config[fc.at] = "enabled"
               /\ ~create_exchange(fc.at).ok
               /\ create_exchange(fc.at).err = "Internal"
        /\ fc.res = "Ok" =>
               /\ fc.at = "none"
               /\ exchanges = {}
               /\ fc.listed => fc.names = {}

\* C12, the case: from_config failed on a config that holds a disabled entry as well
C12_Reached ==
    /\ fc.pc = "done" /\ fc.res = "Internal"
    /\ \E n \in ConfigNames : config[n] = "disabled"

\* C13: from a config with one enabled entry of a known provider and one disabled entry,
\* from_config returns a registry, and it holds exactly the enabled name.
C13_OneEnabledKnownProviderListed ==
    (/\ fc.pc = "done"
     /\ Cardinality({n \in ConfigNames : config[n] = "enabled"}) = 1
     /\ Cardinality({n \in ConfigNames : config[n] = "disabled"}) = 1
     /\ \A n \in ConfigNames :
            config[n] = "enabled" => create_exchange(n).msg = "not yet implemented") =>
        /\ fc.res = "Ok"
        /\ exchanges = {to_lowercase(n) : n \in {m \in ConfigNames : config[m] = "enabled"}}

\* C13, the case: from_config has returned for a config with one enabled entry naming
\* poloniex and one disabled entry
C13_Reached ==
    /\ fc.pc = "done"
    /\ config["poloniex"] = "enabled"
    /\ Cardinality({n \in ConfigNames : config[n] = "enabled"}) = 1
    /\ Cardinality({n \in ConfigNames : config[n] = "disabled"}) = 1

\* ------------------------------------------------------------ properties: membership

\* C14: after any sequence of register and unregister calls, a name is registered exactly
\* when the map stores an adapter under it, and that adapter is the one most recently
\* registered under the name; register returns Ok also when it replaces an adapter; get
\* returns that adapter and list the registered names.
C14_LastRegisteredWins ==
    /\ \A n \in Names :
           /\ n \in exchanges <=> handle[n] # 0
           /\ handle[n] = latest[n]
    /\ \A c \in Callers :
           rcall[c].pc = "done" =>
               /\ rcall[c].op = "register" =>
                      (rcall[c].res = "Ok" /\ handle[rcall[c].name] = rcall[c].adapter)
               /\ rcall[c].op = "get" =>
                      /\ rcall[c].got = latest[rcall[c].name]
                      /\ rcall[c].res = IF latest[rcall[c].name] # 0 THEN "Some" ELSE "None"
               /\ rcall[c].op = "list" => rcall[c].names = {n \in Names : latest[n] # 0}

\* C14, the case: register has replaced another adapter of the same name
C14_Reached ==
    \E c \in Callers :
        /\ rcall[c].op = "register" /\ rcall[c].pc = "done"
        /\ rcall[c].got # 0
        /\ rcall[c].got # rcall[c].adapter

\* C15: unregister(name) of a registered name returns Ok and removes that name's entry and
\* no other; of a name not registered it returns Internal and changes nothing.
C15_UnregisterRemovesExactlyOne ==
    [][\A c \in Callers :
          (/\ rcall[c].op = "unregister" /\ rcall[c].pc = "hold"
           /\ rcall'[c].pc = "done") =>
              IF rcall[c].name \in exchanges
              THEN /\ rcall'[c].res = "Ok"
                   /\ exchanges' = exchanges \ {rcall[c].name}
                   /\ handle' = [handle EXCEPT ![rcall[c].name] = 0]
                   /\ \A n \in Names \ {rcall[c].name} : is_connected'[n] = is_connected[n]
              ELSE /\ rcall'[c].res = "Internal"
                   /\ exchanges' = exchanges
                   /\ handle' = handle
                   /\ is_connected' = is_connected]_vars

\* C15, the case: unregister has removed one of two registered names
C15_Reached ==
    \E c \in Callers :
        /\ rcall[c].op = "unregister" /\ rcall[c].pc = "done" /\ rcall[c].res = "Ok"
        /\ exchanges # {}
        /\ rcall[c].name \notin exchanges

\* C16: while connect_all or disconnect_all holds the registry in the middle of its adapter
\* calls, a get, list or status call that has asked for the registry is not kept waiting:
\* no call that needs the lock exclusively is ahead of it, so it can be granted at once.
C16_QueriesNeverBlocked ==
    \A c \in Tasks :
        (/\ rcall[c].pc = "wait"
         /\ rcall[c].op \in {"get", "list", "status"}
         /\ \E h \in rw_holders :
                /\ rcall[h].op \in {"connect_all", "disconnect_all"}
                /\ rcall[h].todo # {}) =>
            \A i \in 1..Len(rw_queue) :
                (\E j \in i..Len(rw_queue) : rw_queue[j] = c) => ~Writes(rcall[rw_queue[i]].op)

\* C16, the case: a query is queued while connect_all or disconnect_all is between two
\* adapter calls and a register or unregister is waiting too
C16_Reached ==
    \E c \in Tasks, w \in Tasks, h \in rw_holders :
        /\ rcall[c].pc = "wait" /\ rcall[c].op \in {"get", "list", "status"}
        /\ rcall[w].pc = "wait" /\ Writes(rcall[w].op)
        /\ rcall[h].op \in {"connect_all", "disconnect_all"} /\ rcall[h].todo # {}

\* C17: no Orderbook the adapter produces, from a streaming message or from get_orderbook,
\* has a PriceLevel of quantity zero among its bids or asks.
C17_NoZeroQuantityLevel ==
    book.pc = "done" =>
        \A side \in {book.bids, book.asks} :
            \A i \in 1..Len(side) : side[i].quantity # 0

\* C17, the case: an Orderbook was produced from raw levels one of which had quantity zero
\* under a well-formed price
C17_Reached ==
    /\ book.pc = "done"
    /\ \/ /\ book.src = "ws"
          /\ \E i \in 1..Len(book.raw_bids) : book.raw_bids[i] = <<"1.5", "0.00">>
       \/ /\ book.src = "rest"
          /\ Len(book.raw_bids) >= 2
          /\ book.raw_bids[1] = "1.5" /\ book.raw_bids[2] = "0.00"

\* C18: while a disconnect() call is in progress and the adapter's stored streaming session
\* is not yet closed, the connected flag is not yet false.
C18_SessionClosedBeforeFlagFalse ==
    \A c \in Callers :
        (/\ call[c].op = "disconnect"
         /\ call[c].pc \in {"d_lock", "d_take"}
         /\ websocket_manager # 0
         /\ ~closed[websocket_manager]) =>
            connected

\* C18, the case: a disconnect() of an adapter with an open streaming session has closed
\* the session and returned
C18_Reached ==
    \E c \in Callers :
        /\ call[c].op = "disconnect" /\ call[c].pc = "done"
        /\ websocket_manager # 0
        /\ closed[websocket_manager]
        /\ ~connected

\* C19: a connect() call ends with the connected flag set to true and Ok exactly when its
\* server-time request succeeded, also when the clock drift is above the maximum; when the
\* request failed it ends with a Connection error and the step leaves the flag as it was.
\* Nothing else sets the flag to true.
C19_ConnectSetsFlagOnSuccess ==
    [][/\ \A c \in Callers :
             (/\ call[c].op = "connect" /\ call[c].pc # "done"
              /\ call'[c].pc = "done") =>
                 IF call'[c].cerr.kind = "ok"
                 THEN connected' /\ call'[c].res = "Ok"
                 ELSE call'[c].res = "Connection" /\ connected' = connected
       /\ (~connected /\ connected') =>
             \E c \in Callers :
                 /\ call[c].op = "connect" /\ call[c].pc # "done"
                 /\ call'[c].pc = "done" /\ call'[c].cerr.kind = "ok"]_vars

\* C19, the case: connect() returned Ok and set the flag although the clock drift was above
\* the maximum
C19_Reached ==
    \E c \in Callers :
        /\ call[c].op = "connect" /\ call[c].pc = "done"
        /\ call[c].res = "Ok" /\ call[c].note = "clock_drift"
        /\ connected

\* C20: with the Manager's calls made one after another, status() returns the registered
\* names, each mapped to its adapter's connected flag; when connect_all has returned Ok every
\* registered adapter's flag is true, when disconnect_all has returned every one is false;
\* and a flag is true only through a connect_all step that connected that adapter or the
\* registration of an adapter that was connected already.
C20_StatusReportsConnectedFlags ==
    /\ [](\A c \in Callers :
            rcall[c].pc = "done" =>
                /\ rcall[c].op = "status" =>
                       /\ rcall[c].names = exchanges
                       /\ rcall[c].snap = {n \in exchanges : is_connected[n]}
                /\ (rcall[c].op = "connect_all" /\ rcall[c].res = "Ok") =>
                       \A n \in exchanges : is_connected[n]
                /\ rcall[c].op = "disconnect_all" =>
                       \A n \in exchanges : ~is_connected[n])
    /\ [][\A n \in Names :
            (~is_connected[n] /\ is_connected'[n]) =>
                \E c \in Callers :
                    \/ /\ rcall[c].op = "connect_all"
                       /\ Len(rcall'[c].log) = Len(rcall[c].log) + 1
                       /\ rcall'[c].log[Len(rcall'[c].log)] = [name |-> n, r |-> "Ok"]
                    \/ /\ rcall[c].op = "register" /\ rcall[c].pc = "hold"
                       /\ rcall[c].name = n]_vars

\* C20, the case: status() returned two registered names, one connected and one not
C20_Reached ==
    \E c \in Callers :
        /\ rcall[c].op = "status" /\ rcall[c].pc = "done"
        /\ Cardinality(rcall[c].names) = 2
        /\ Cardinality(rcall[c].snap) = 1

\* C21: for a pair BASE/QUOTE whose asset codes are non-empty and hold neither an underscore
\* nor a slash, symbol_to_pair(pair_to_symbol(pair)) is the pair itself.
C21_PairRoundTrip ==
    (/\ conv.pc = "done"
     /\ \E i \in 2..(Len(conv.pair) - 1) :
            /\ conv.pair[i] = "/"
            /\ \A j \in (1..Len(conv.pair)) \ {i} : conv.pair[j] \notin {"/", "_"}) =>
        conv.back = conv.pair

\* C21, the case: a pair of the form BASE/QUOTE has been converted to its symbol, which
\* holds an underscore and no slash, and back
C21_Reached ==
    /\ conv.pc = "done"
    /\ conv.pair = <<"B", "/", "Q">>
    /\ conv.symbol = <<"B", "_", "Q">>

\* C22: the payload of a GET or DELETE request holds the request's parameters, one
\* key=urlencode(value) entry each, in strictly ascending order of their keys; so it is the
\* same whatever order the parameter map was iterated in.
C22_PayloadSortedByKey ==
    (req.pc = "done" /\ req.method \in {"GET", "DELETE"}) =>
        /\ {req.payload[i][1] : i \in DOMAIN req.payload} = DOMAIN req.params
        /\ \A i \in DOMAIN req.payload :
               /\ req.payload[i][2] = urlencode(req.params[req.payload[i][1]])
               /\ i > 1 => KeyLess(req.payload[i - 1][1], req.payload[i][1])

\* C22, the case: a signed GET whose map was iterated in an order that is not the sorted one
C22_Reached ==
    /\ req.pc = "done" /\ req.method = "GET" /\ req.signed
    /\ Len(req.order) = 3
    /\ KeyLess(req.order[2], req.order[1])
    /\ \E k \in DOMAIN req.params : req.params[k] = "a b"

\* C23: while a session that is not closed has its read loop running on a transport, its
\* ping loop is running too, also after a reconnect.
C23_PingLoopRunsUntilClosed ==
    \A s \in Sessions :
        (task[s] \in {"loop", "next"} /\ ~closed[s]) => ping[s] = "run"

\* C23, the case: the read loop has reconnected and reads the second transport with the
\* ping loop still running
C23_Reached ==
    \E s \in Sessions :
        /\ task[s] \in {"loop", "next"} /\ ~closed[s]
        /\ opened[s] = 2 /\ sink[s] = 2
        /\ ping[s] = "run"

\* C24: one disconnect event leads to at most one attempt to open a transport; when the
\* reconnect fails, at one of its closed checks, at that attempt or at the subscription that
\* follows it, the read loop goes to its cleanup, after which subscribe() returns: from then
\* on the session opens no transport and sends no subscription. (No session has a failure
\* callback: WebSocketConfig::from_config sets on_reconnect_failed to None.)
C24_OneReconnectAttemptThenStop ==
    /\ [](\A s \in Sessions : tries[s] <= 1)
    /\ [][\A s \in Sessions :
            /\ (/\ task[s] \in {"rc_check", "rc_sleep", "rc_connect", "rc_sub"}
                /\ task'[s] \notin {"rc_check", "rc_sleep", "rc_connect", "rc_sub", "loop"}) =>
                   task'[s] = "cleanup"
            /\ task[s] \in {"cleanup", "done"} =>
                   /\ task'[s] \in {task[s], "done"}
                   /\ opened'[s] = opened[s]
                   /\ sent'[s] = sent[s]]_vars

\* C24, the case: after a close frame the one attempt to open a new transport has failed and
\* the read loop has left for its cleanup
C24_Reached ==
    \E s \in Sessions :
        /\ task[s] = "cleanup" /\ why[s] = "close_frame"
        /\ tries[s] = 1
        /\ opened[s] = 1 /\ sink[s] = 0

\* C25: the read loop enters a reconnect exactly on a close frame or on one of the errors
\* ConnectionClosed, AlreadyClosed, Io, Tls, Http; on the end of the stream and on every
\* other error it goes to its cleanup; and nothing but an item read starts a reconnect.
C25_ReconnectExactlyOnRecoverable ==
    [][\A s \in Sessions :
          /\ (task[s] # "rc_take" /\ task'[s] = "rc_take") => task[s] = "next"
          /\ (task[s] = "next" /\ task'[s] # "next") =>
                /\ task'[s] = "rc_take" <=>
                       why'[s] \in {"close_frame", "ConnectionClosed", "AlreadyClosed",
                                    "Io", "Tls", "Http"}
                /\ why'[s] \in {"end", "Protocol", "Capacity", "Utf8"} =>
                       task'[s] = "cleanup"
                /\ why'[s] = "none" => task'[s] \in {"loop", "cleanup"}]_vars

\* C25, the case: the read loop has entered a reconnect on a Tls error
C25_Reached ==
    \E s \in Sessions : task[s] = "rc_take" /\ why[s] = "Tls"

\* C26: once a session is closed while its read loop is running, the read loop eventually
\* ends and subscribe() returns.
C26_ReadLoopEndsAfterClose ==
    \A s \in Sessions :
        []((closed[s] /\ task[s] \in {"loop", "next"}) => <>(task[s] = "done"))

\* C26, the case: close() has taken and closed the sink of a session whose read loop is
\* waiting for the next item of its stream
C26_Reached ==
    \E s \in Sessions :
        /\ closed[s] /\ task[s] = "next"
        /\ sink[s] = 0 /\ wm_lock = 0

\* C27: a session never has more than one live transport, the one whose sink it stores; and
\* a transport is opened only when no sink is stored and no earlier transport is live, the
\* previous sink having been taken and closed.
C27_AtMostOneLiveTransport ==
    /\ [](\A s \in Sessions :
            /\ Cardinality(live[s]) <= 1
            /\ live[s] = IF sink[s] = 0 THEN {} ELSE {sink[s]})
    /\ [][\A s \in Sessions :
            opened'[s] # opened[s] =>
                /\ sink[s] = 0 /\ live[s] = {}
                /\ opened'[s] = opened[s] + 1
                /\ live'[s] = {opened'[s]}]_vars

\* C27, the case: a session has reconnected; its second transport is the live one
C27_Reached ==
    \E s \in Sessions : opened[s] = 2 /\ sink[s] = 2 /\ live[s] = {2}

\* C28: a reconnect of a session starts only in its read loop, on an item just read, when no
\* reconnect of that session is in progress; the reconnect in progress ends, back in the loop
\* or in the cleanup, before anything else happens in the session's task.
C28_ReconnectsSerialized ==
    [][\A s \in Sessions :
          /\ (task'[s] = "rc_take" /\ task[s] # "rc_take") =>
                /\ task[s] = "next"
                /\ why[s] = "none" /\ why'[s] # "none"
                /\ tries[s] = 0
          /\ (task[s] \in {"rc_take", "rc_check", "rc_sleep", "rc_connect", "rc_sub"}
              /\ task'[s] # task[s]) =>
                CASE task[s] = "rc_take" -> task'[s] = "rc_check"
                  [] task[s] = "rc_check" -> task'[s] \in {"rc_sleep", "cleanup"}
                  [] task[s] = "rc_sleep" -> task'[s] \in {"rc_connect", "cleanup"}
                  [] task[s] = "rc_connect" -> task'[s] \in {"rc_sub", "cleanup"}
                  [] task[s] = "rc_sub" -> task'[s] \in {"loop", "cleanup"}]_vars

\* C28, the case: a session that reconnected once has started its second reconnect
C28_Reached ==
    \E s \in Sessions :
        /\ task[s] \in {"rc_take", "rc_check", "rc_sleep", "rc_connect"}
        /\ opened[s] = 2 /\ Len(sent[s]) = 2

\* C29: at most one task at a time is writing to a session's sink, and it is the task that
\* holds the sink mutex: a keepalive send, a subscription send and a sink close never overlap.
C29_OneSinkWriter ==
    /\ Cardinality(sk.writing) <= 1
    /\ \A t \in sk.writing : sk.guard = t /\ sk.at[t] = "writing"

\* C29, the case: the ping loop is sending a keepalive while close() and the read loop's
\* reconnect both wait for the sink mutex
C29_Reached ==
    /\ sk.writing = {"ping"}
    /\ sk.site["close"] = "close" /\ sk.at["close"] = "want"
    /\ sk.site["read"] = "rc_take" /\ sk.at["read"] = "want"

\* C30: a session's closed flag only ever goes from false to true: no step of any operation
\* makes a closed session not closed again.
C30_ClosedNeverReset == [][\A s \in Sessions : closed[s] => closed'[s]]_vars

\* C30, the case: a session was closed by disconnect(), its read loop and ping loop have
\* ended, and the adapter has since been connected again: the session is still closed
C30_Reached ==
    \E s \in Sessions :
        /\ closed[s] /\ task[s] = "done" /\ ping[s] = "done"
        /\ connected /\ call[Owner].op = "connect" /\ call[Owner].pc = "done"

\* C31: the step of check_rate_limit that looks at the window resets request_count to 0 and
\* window_start to now exactly when now - window_start >= window length, and otherwise
\* leaves both as they were.
C31_WindowResetAtExpiry ==
    [][\A c \in Callers :
          (call[c].pc = "rl" /\ call'[c].pc = "rl_load") =>
              IF now - window_start >= WindowSecs
              THEN request_count' = 0 /\ window_start' = now
              ELSE request_count' = request_count /\ window_start' = window_start]_vars

\* C31, the case: a request arrived exactly one window length after the window's start with
\* the window exhausted, and check_rate_limit has passed its reset test without resetting
C31_Reached ==
    \E c \in Callers :
        /\ call[c].pc = "rl_load"
        /\ now - window_start = WindowSecs
        /\ request_count >= RateLimit

\* C32: a call that passed the rate-limit check adds exactly one to request_count when its
\* send ends, whether the send succeeded or failed; a call the limiter rejects leaves
\* request_count as it was.
C32_EveryAdmittedCallCounted ==
    [][\A c \in Callers :
          /\ (call[c].pc = "send" /\ call'[c].pc # "send") =>
                 request_count' = request_count + 1
          /\ (call[c].pc = "rl_load" /\ call'[c].pc = "done") =>
                 request_count' = request_count]_vars

\* C32, the case: the first call of the first window was admitted, its send failed with a
\* transport error, and request_count is still 0
C32_Reached ==
    \E c \in Callers :
        /\ call[c].op = "request" /\ call[c].pc = "done"
        /\ call[c].cerr.kind = "Request" /\ call[c].ord = 1
        /\ request_count = 0 /\ now = 0

\* C33: the signing string of a signed DELETE request is METHOD, newline, endpoint, newline
\* and the key-sorted query payload, which holds signTimestamp, as for GET; the
\* requestBody=<json>&signTimestamp=<ts> form is used for POST only.
C33_DeleteSignedLikeGet ==
    (req.pc = "done" /\ req.signed) =>
        /\ req.method = "DELETE" =>
               /\ req.sign_payload = [method |-> "DELETE", form |-> "payload",
                                      payload |-> req.payload]
               /\ \E i \in DOMAIN req.payload : req.payload[i][1] = SignTimestampKey
        /\ req.sign_payload.form = "requestBody" => req.method = "POST"

\* C33, the case: a signed DELETE with two parameters of its own has been signed
C33_Reached ==
    /\ req.pc = "done" /\ req.signed /\ req.method = "DELETE"
    /\ Len(req.payload) = 3
    /\ req.sign_payload.method = "DELETE"

C35_DisconnectClosesEverySession ==
    \A c \in Callers :
        (call[c].op = "disconnect" /\ call[c].pc = "done") =>
            \A s \in 1..nsess : closed[s]

\* C35, the case: subscribe_orderbook was called twice, disconnect() has returned, and the
\* first session is not closed: its read loop is still reading
C35_Reached ==
    /\ call[Owner].op = "disconnect" /\ call[Owner].pc = "done"
    /\ nsess = 2 /\ closed[2] /\ ~closed[1]
    /\ task[1] = "next" /\ sink[1] # 0

\* C36: once the task running subscribe() has returned, with Ok or with an error, the
\* session's sink is empty and none of the transports it opened is still open.
C36_NoTransportAfterSubscribeReturns ==
    \A s \in Sessions :
        task[s] = "done" => (sink[s] = 0 /\ live[s] = {})

\* C36, the case: subscribe() returned the error of its subscription send, the sink of the
\* transport it had just opened still stored and the transport open
C36_Reached ==
    \E s \in Sessions :
        /\ task[s] = "done" /\ ~closed[s]
        /\ opened[s] = 1 /\ sink[s] = 1 /\ live[s] = {1}
        /\ sent[s] = <<>> /\ ping[s] = "none"

\* C37: a call of get_orderbook, subscribe_orderbook, place_order, cancel_order, get_order or
\* get_balances made while the connected flag is false returns a Connection error at once:
\* the step leaves the rate-limit counter alone, creates no session and opens no transport,
\* and the call never reaches the rate limiter or the HTTP send.
C37_NothingSentWhileDisconnected ==
    /\ [](\A c \in Callers :
            (call[c].op \in RestOps \cup {"subscribe_orderbook"} /\ ~call[c].saw) =>
                /\ call[c].pc = "done" /\ call[c].res = "Connection"
                /\ call[c].ord = 0 /\ call[c].sess = 0)
    /\ [][\A c \in Callers :
            (/\ call[c].pc = "idle" /\ ~connected
             /\ call'[c].op \in RestOps \cup {"subscribe_orderbook"}) =>
                /\ call'[c].pc = "done" /\ call'[c].res = "Connection"
                /\ request_count' = request_count
                /\ nsess' = nsess /\ websocket_manager' = websocket_manager
                /\ opened' = opened /\ live' = live /\ task' = task]_vars

\* C37, the case: after a connect() that was counted and a disconnect(), place_order was
\* called and has returned Connection with the counter still at 1
C37_Reached ==
    /\ call[Owner].op = "place_order" /\ call[Owner].pc = "done"
    /\ call[Owner].res = "Connection" /\ call[Owner].rep
    /\ ~connected /\ request_count = 1

\* C38: the channel holds the decoded book messages the session has read, one entry each, in
\* the order they were read, also when they were read from different transports; reading a
\* book message while the consumer holds the receiver appends its order book and nothing
\* else, and no other step (a control message, another frame, an error, a reconnect) changes
\* the channel.
C38_DeliveredOnceInOrder ==
    /\ [](\A s \in Sessions :
            /\ Len(chan[s]) = nread[s]
            /\ \A i \in 1..Len(chan[s]) :
                   /\ chan[s][i].n = i
                   /\ i > 1 => chan[s][i].t >= chan[s][i - 1].t)
    /\ [][\A s \in Sessions :
            IF task[s] = "next" /\ nread'[s] = nread[s] + 1
            THEN rx[s] /\ chan'[s] = Append(chan[s], DecodeBook(s, nread[s] + 1, opened[s]))
            ELSE chan'[s] = chan[s]]_vars

\* C38, the case: a book message read before a reconnect and one read after it are both on
\* the channel, the consumer still holding the receiver
C38_Reached ==
    \E s \in Sessions :
        /\ rx[s] /\ Len(chan[s]) = 2
        /\ chan[s][1].t = 1 /\ chan[s][2].t = 2

\* C39: for each pair, at most one try_lock_pair call has returned true since the last
\* unlock_pair of that pair, and the pair is in executing_pairs exactly then; a try_lock_pair
\* or unlock_pair step changes the lock state of no other pair.
C39_OneHolderPerPair ==
    /\ [](\A p \in {BTC_USDT, ETH_USDT} :
            /\ bot.held[p] <= 1
            /\ p \in bot.executing_pairs <=> bot.held[p] = 1)
    /\ [][\A c \in Callers, p \in {BTC_USDT, ETH_USDT} :
            (/\ bot.pc[c] \in {"contains", "insert", "remove"}
             /\ bot'.pc[c] # bot.pc[c] /\ p # bot.pair[c]) =>
                /\ bot'.held[p] = bot.held[p]
                /\ p \in bot'.executing_pairs <=> p \in bot.executing_pairs]_vars

\* C39, the case: two callers called try_lock_pair for the same pair at the same time; one
\* has returned true and the other false, while the other pair is locked too
C39_Reached ==
    \E c, d \in Callers :
        /\ bot.pc[c] = "done" /\ bot.ret[c] = "true" /\ bot.pair[c] = BTC_USDT
        /\ bot.pc[d] = "done" /\ bot.ret[d] = "false" /\ bot.pair[d] = BTC_USDT
        /\ bot.executing_pairs = {BTC_USDT, ETH_USDT}

\* C40: at most one main detection loop is active at a time, and start() returns
\* AlreadyRunning exactly when it finds the bot running.
C40_OneMainLoop ==
    /\ Cardinality({c \in Callers : bot.pc[c] \in {"tick", "is_running"}}) <= 1
    /\ \A c \in Callers : bot.ret[c] = "AlreadyRunning" => bot.pc[c] = "done"

\* C40, the case: a loop that stop() was meant to end and the loop of a later start() are
\* both active, the first about to find running true again
C40_Reached ==
    \E c, d \in Callers :
        /\ c # d /\ bot.running
        /\ bot.pc[c] = "is_running" /\ bot.pc[d] = "tick"
====
